---- MODULE Spec2Model ----
(***************************************************************************)
(* Verification model of the universal-trader watcher engine.              *)
(*                                                                         *)
(* Independent units are modelled, each with its own variables; the        *)
(* specifications are at the end of the module:                            *)
(*   SpecStore     - the aggregator store (GlobalDataStore)                *)
(*   SpecVenue     - the venue state store (VenueStateStore)               *)
(*   SpecBus       - the request/response bus of the main thread           *)
(*                   (WorkerManager) and the worker side (BaseWorker)      *)
(*   SpecBusFair   - SpecBus with the timers and continuations scheduled   *)
(*   SpecWatcher   - one chain watcher as wired: BlockManager in front of  *)
(*                   PoolStatesManager, with the V2 adapter functions      *)
(*   SpecManager   - SpecWatcher plus direct calls of the public           *)
(*                   PoolStatesManager.handlePoolEvent (unknown pools)     *)
(*   SpecPipeline  - the watcher, its pool-update-batch messages and the   *)
(*                   main thread that receives them                        *)
(*   SpecFresh     - PoolStatesManager.arePoolsFresh on the manager        *)
(*   SpecUpdateAll - PoolStatesManager.updateAll over several pools        *)
(*   SpecOracle    - the USD price oracle (PriceOracle)                    *)
(*   SpecDelivery  - pool logs from the subscription to the pool states:   *)
(*                   BlockManager.handlePoolEvent, parseLog, the manager   *)
(*                   and the V2/V3 adapters                                *)
(*   SpecToken     - TokenManager.ensureTokenRegistered, calls overlapping *)
(*   SpecLimiter   - the rate limiter of Blockchain (throttledCall)        *)
(*   SpecLimiterFair - SpecLimiter with timers firing and calls settling   *)
(*   SpecSwap      - the V3 multi-tick swap simulation (simulateSwap)      *)
(*   SpecSwapFair  - SpecSwap with a started simulation run to its end     *)
(*   SpecQuote     - the V2 getTradeQuote                                  *)
(*   SpecTicks     - the V3 initialized-tick fetchers                      *)
(*   SpecCodec     - the value codec of the static cache (CacheService)    *)
(*   SpecSweep     - the sweeps of WorkerManager with several workers      *)
(*   SpecReorg     - reorg recovery of BlockManager (handleReorg)          *)
(*   SpecReorgFair - SpecReorg with every awaited call settling            *)
(*   SpecListeners - listeners unsubscribed during a GlobalDataStore write *)
(*   SpecSave      - CacheService.save overlapping set, delete and clear   *)
(***************************************************************************)
EXTENDS Integers, Sequences, FiniteSets, TLC

(***************************************************************************)
(* Bounds of the model (not program constants).                            *)
(***************************************************************************)
MaxWrites == 2
MaxBatch == 2
MaxRequests == 2
TickMs == 5000
MaxBlock == 2
MaxEvents == 2
MaxReorgs == 1
MaxExp == 2
MaxTokenCalls == 3
MaxThrottled == 6
MaxTicks == 501
MaxAmount == 1
MaxReserve == 3
MaxTickRange == 1
MaxDepth == 1
MaxSweepRequests == 3
MaxRecoveries == 3
MaxReorgBlock == 3
MaxSaves == 2

(***************************************************************************)
(* ======================  AGGREGATOR STORE  ============================= *)
(* src/watcher/src/core/global-data-store.ts                               *)
(***************************************************************************)
\* pools .. listeners are the fields of GlobalDataStore; lastWrite records what
\* the last write (set / remove) did and whom it notified and, when it set
\* again the pool state and listeners of the write before it, that write too.
VARIABLES pools, byChain, byToken, byDex, byPair, bySymbolPair,
          updateCount, listeners, lastWrite

storeVars == <<pools, byChain, byToken, byDex, byPair, bySymbolPair,
               updateCount, listeners, lastWrite>>

NoPool == [address |-> "none"]

\* String.prototype.toLowerCase on the address strings of the model.
ToLower(s) ==
  CASE s = "0xAA" -> "0xaa"
    [] s = "0xWETH" -> "0xweth"
    [] OTHER -> s

PoolAddrs == {"0xAA", "0xbb"}
StoreKeys == {ToLower(a) : a \in PoolAddrs}
Chains == {1, 2}
DexNames == {"uniswap-v2", "uniswap-v3"}
WETH == [address |-> "0xWETH", symbol |-> "WETH"]
USDC == [address |-> "0xusdc", symbol |-> "USDC"]
DAI == [address |-> "0xdai", symbol |-> "DAI"]
Tokens == {WETH, USDC, DAI}
StoreTokenPairs == {[token0 |-> WETH, token1 |-> USDC], [token0 |-> WETH, token1 |-> DAI]}
TokenKeys == {ToLower(t.address) : t \in Tokens}
Symbols == {t.symbol : t \in Tokens}

\* A venue is a DEX on one chain.
Venues == {[chainId |-> 1, dexName |-> "uniswap-v2"], [chainId |-> 2, dexName |-> "uniswap-v3"]}

\* The pool states a caller may hand to set(): PoolState of the store.
StorePools ==
  {[address |-> a, chainId |-> v.chainId, tokenPair |-> tp, dexName |-> v.dexName,
    disabled |-> FALSE] : a \in PoolAddrs, v \in Venues, tp \in StoreTokenPairs}

\* The batches a caller may hand to setBatch().
Batches == UNION {[1..n -> StorePools] : n \in 1..MaxBatch}

ListenerIds == {"L1", "L2"}

\* The listeners whose callback throws when it is called
Throwers == {"L1"}

\* makePairKey: [a.toLowerCase(), b.toLowerCase()].sort().join(':').  The
\* sorted, joined string is a canonical name of the unordered pair, modelled
\* as the set of the two lowercased addresses.
makePairKey(a, b) == {ToLower(a), ToLower(b)}

\* [symbol0, symbol1].sort().join(':')
makeSymKey(a, b) == {a, b}

PairKeys == {makePairKey(x, y) : x \in TokenKeys, y \in TokenKeys}
SymKeys == {makeSymKey(x, y) : x \in Symbols, y \in Symbols}

\* The store as one value, so that set() can be folded over a batch.
StoreRec(p, c, t, d, ap, sp, n, lw) ==
  [pools |-> p, byChain |-> c, byToken |-> t, byDex |-> d, byPair |-> ap,
   bySymbolPair |-> sp, updateCount |-> n, lastWrite |-> lw]

CurStore ==
  StoreRec(pools, byChain, byToken, byDex, byPair, bySymbolPair, updateCount, lastWrite)

NoWrite == [op |-> "none"]

\* The size of every secondary index set.
IndexSizes(st) ==
  [byChain |-> [c \in Chains |-> Cardinality(st.byChain[c])],
   byToken |-> [t \in TokenKeys |-> Cardinality(st.byToken[t])],
   byDex |-> [d \in DexNames |-> Cardinality(st.byDex[d])],
   byPair |-> [k \in PairKeys |-> Cardinality(st.byPair[k])],
   bySymbolPair |-> [k \in SymKeys |-> Cardinality(st.bySymbolPair[k])]]

\* resolveAddresses(addrs): the stored pools of a set of keys
resolveAddresses(st, addrs) == {st.pools[k] : k \in {a \in addrs : st.pools[a] # NoPool}}

\* The index-based lookups
getByChain(st, chainId) == resolveAddresses(st, st.byChain[chainId])
getByToken(st, tokenAddress) == resolveAddresses(st, st.byToken[ToLower(tokenAddress)])
getByDex(st, dexName) == resolveAddresses(st, st.byDex[dexName])
getByPair(st, tokenA, tokenB) == resolveAddresses(st, st.byPair[makePairKey(tokenA, tokenB)])
getBySymbolPair(st, a, b) == resolveAddresses(st, st.bySymbolPair[makeSymKey(a, b)])

\* The index lookups by name and arguments
AllLookups ==
  {<<"chain", c>> : c \in Chains} \cup {<<"token", t>> : t \in TokenKeys}
  \cup {<<"dex", d>> : d \in DexNames}
  \cup {<<"pair", ab[1], ab[2]>> : ab \in TokenKeys \X TokenKeys}
  \cup {<<"symbols", ab[1], ab[2]>> : ab \in Symbols \X Symbols}

Lookup(st, q) ==
  CASE q[1] = "chain" -> getByChain(st, q[2])
    [] q[1] = "token" -> getByToken(st, q[2])
    [] q[1] = "dex" -> getByDex(st, q[2])
    [] q[1] = "pair" -> getByPair(st, q[2], q[3])
    [] q[1] = "symbols" -> getBySymbolPair(st, q[2], q[3])

\* Every index lookup that returns a pool state
LookupsReturning(st, pool) == {q \in AllLookups : pool \in Lookup(st, q)}

\* The index lookups that name a pool's own chain, tokens, venue, address
\* pair (either order) and symbol pair (either order)
LookupsOf(p) ==
  LET t0 == ToLower(p.tokenPair.token0.address)
      t1 == ToLower(p.tokenPair.token1.address)
      s0 == p.tokenPair.token0.symbol
      s1 == p.tokenPair.token1.symbol
  IN {<<"chain", p.chainId>>, <<"token", t0>>, <<"token", t1>>, <<"dex", p.dexName>>,
      <<"pair", t0, t1>>, <<"pair", t1, t0>>, <<"symbols", s0, s1>>,
      <<"symbols", s1, s0>>}

\* The record of one write: what was written, whether the key was absent
\* before, the notifications made (in order), the listener errors logged,
\* whether the call returned to its caller, what a listener called for the
\* write finds in the store (the primary entry of the key and the lookups
\* that return the pool), the index sizes afterwards, and (first) the record
\* of the write before it when that was a set of the same pool state with the
\* same listeners registered.
WriteRec(op, pool, absent, run, ls, st, atNotify, before) ==
  [op |-> op, pool |-> pool, absentBefore |-> absent, notes |-> run.notes, ls |-> ls,
   logged |-> run.logged, returned |-> ~run.threw,
   seenPrimary |-> atNotify.pools[ToLower(pool.address)],
   seenLookups |-> LookupsReturning(atNotify, pool),
   sizes |-> IndexSizes(st),
   first |-> IF op = "set" /\ before.op = "set" /\ before.pool = pool /\ before.ls = ls
             THEN [before EXCEPT !.first = NoWrite]
             ELSE NoWrite]

\* addToSet(map, key, value)
addToSet(map, key, value) == [map EXCEPT ![key] = @ \cup {value}]

\* map.get(key)?.delete(value)
delFromSet(map, key, value) == [map EXCEPT ![key] = @ \ {value}]

\* indexPool(key, pool)
indexPool(st, key, pool) ==
  LET t0 == ToLower(pool.tokenPair.token0.address)
      t1 == ToLower(pool.tokenPair.token1.address)
  IN [st EXCEPT
        !.byChain = addToSet(@, pool.chainId, key),
        !.byToken = addToSet(addToSet(@, t0, key), t1, key),
        !.byDex = addToSet(@, pool.dexName, key),
        !.byPair = addToSet(@, makePairKey(t0, t1), key),
        !.bySymbolPair =
           addToSet(@, makeSymKey(pool.tokenPair.token0.symbol,
                                  pool.tokenPair.token1.symbol), key)]

\* removeIndex(key, pool)
removeIndex(st, key, pool) ==
  LET t0 == ToLower(pool.tokenPair.token0.address)
      t1 == ToLower(pool.tokenPair.token1.address)
  IN [st EXCEPT
        !.byChain = delFromSet(@, pool.chainId, key),
        !.byToken = delFromSet(delFromSet(@, t0, key), t1, key),
        !.byDex = delFromSet(@, pool.dexName, key),
        !.byPair = delFromSet(@, makePairKey(t0, t1), key),
        !.bySymbolPair =
           delFromSet(@, makeSymKey(pool.tokenPair.token0.symbol,
                                    pool.tokenPair.token1.symbol), key)]

NoRun == [notes |-> <<>>, logged |-> <<>>, threw |-> FALSE]

\* for (const fn of listeners) fn(pool, changeType), from the i-th listener
\* on.  catches: the call stands in try / catch (the error is logged and the
\* loop goes on); without it the exception leaves the loop and the write.
RECURSIVE notifyFrom(_, _, _, _, _)
notifyFrom(ls, i, changeType, catches, acc) ==
  IF i > Len(ls) THEN acc
  ELSE LET called == [acc EXCEPT !.notes = Append(@, <<ls[i], changeType>>)]
       IN IF ls[i] \notin Throwers
          THEN notifyFrom(ls, i + 1, changeType, catches, called)
          ELSE IF catches
               THEN notifyFrom(ls, i + 1, changeType, catches,
                               [called EXCEPT !.logged = Append(@, ls[i])])
               ELSE [called EXCEPT !.threw = TRUE]

\* The notifications of one write of GlobalDataStore: every registered
\* listener, in registration order, is called once with the change type,
\* each call in a try / catch of its own.
notifyAll(ls, changeType) == notifyFrom(ls, 1, changeType, TRUE, NoRun)

StateAtNotifyBeforeWrite(before, written) == before

\* The store a listener finds when it is called: the notification loop comes
\* after the writes to the primary map and the indices
StateAtNotify(before, written) == written

SetIsNewAlways(ps, key) == TRUE

\* set(): const isNew = !this.pools.has(key)
SetIsNew(ps, key) == ps[key] = NoPool

\* set(pool) as a function of the store; ls is the listener list.
storeSet(st, pool, ls) ==
  LET key == ToLower(pool.address)
      isNew == SetIsNew(st.pools, key)
      changeType == IF isNew THEN "add" ELSE "update"
      st1 == [st EXCEPT !.pools[key] = pool, !.updateCount = @ + 1]
      st2 == IF isNew THEN indexPool(st1, key, pool) ELSE st1
  IN [st2 EXCEPT
        !.lastWrite = WriteRec("set", pool, st.pools[key] = NoPool,
                               notifyAll(ls, changeType), ls, st2,
                               StateAtNotify(st, st2), st.lastWrite)]

\* setBatch(pools): for (const pool of pools) this.set(pool)
RECURSIVE storeSetBatch(_, _, _)
storeSetBatch(st, batch, ls) ==
  IF batch = <<>> THEN st
  ELSE storeSetBatch(storeSet(st, Head(batch), ls), Tail(batch), ls)

\* remove(address) for a stored pool
storeRemove(st, key, ls) ==
  LET pool == st.pools[key]
      st1 == [st EXCEPT !.pools[key] = NoPool]
      st2 == removeIndex(st1, key, pool)
  IN [st2 EXCEPT
        !.lastWrite = WriteRec("remove", pool, FALSE, notifyAll(ls, "remove"), ls, st2,
                               StateAtNotify(st, st2), st.lastWrite)]

StoreBecomes(st) ==
  /\ pools' = st.pools
  /\ byChain' = st.byChain
  /\ byToken' = st.byToken
  /\ byDex' = st.byDex
  /\ byPair' = st.byPair
  /\ bySymbolPair' = st.bySymbolPair
  /\ updateCount' = st.updateCount
  /\ lastWrite' = st.lastWrite

InitStore ==
  /\ pools = [k \in StoreKeys |-> NoPool]
  /\ byChain = [c \in Chains |-> {}]
  /\ byToken = [t \in TokenKeys |-> {}]
  /\ byDex = [d \in DexNames |-> {}]
  /\ byPair = [k \in PairKeys |-> {}]
  /\ bySymbolPair = [k \in SymKeys |-> {}]
  /\ updateCount = 0
  /\ listeners = <<>>
  /\ lastWrite = NoWrite

\* set(pool)
Set(pool) ==
  /\ updateCount < MaxWrites
  /\ StoreBecomes(storeSet(CurStore, pool, listeners))
  /\ UNCHANGED listeners

\* setBatch(pools)
SetBatch(batch) ==
  /\ updateCount + Len(batch) <= MaxWrites
  /\ StoreBecomes(storeSetBatch(CurStore, batch, listeners))
  /\ UNCHANGED listeners

\* remove(address): returns false and does nothing when the pool is not stored
Remove(address) ==
  /\ pools[ToLower(address)] # NoPool
  /\ StoreBecomes(storeRemove(CurStore, ToLower(address), listeners))
  /\ UNCHANGED listeners

\* setDisabled(address, disabled)
SetDisabled(address, disabled) ==
  /\ pools[ToLower(address)] # NoPool
  /\ pools[ToLower(address)].disabled # disabled
  /\ pools' = [pools EXCEPT ![ToLower(address)].disabled = disabled]
  /\ UNCHANGED <<byChain, byToken, byDex, byPair, bySymbolPair, updateCount,
                 listeners, lastWrite>>

\* listeners.indexOf(listener), 0 when absent (1-based here)
indexOf(ls, l) ==
  IF \E i \in 1..Len(ls) : ls[i] = l
  THEN CHOOSE i \in 1..Len(ls) : ls[i] = l /\ \A j \in 1..(i - 1) : ls[j] # l
  ELSE 0

\* onChange(listener): this.listeners.push(listener).  Every registration is a
\* listener of its own (ListenerIds names the registrations).
OnChange(l) ==
  /\ indexOf(listeners, l) = 0
  /\ listeners' = Append(listeners, l)
  /\ UNCHANGED <<pools, byChain, byToken, byDex, byPair, bySymbolPair,
                 updateCount, lastWrite>>

\* the unsubscribe handle returned by onChange: splice(idx, 1)
Unsubscribe(l) ==
  /\ indexOf(listeners, l) > 0
  /\ listeners' = [i \in 1..(Len(listeners) - 1) |->
                     IF i < indexOf(listeners, l) THEN listeners[i] ELSE listeners[i + 1]]
  /\ UNCHANGED <<pools, byChain, byToken, byDex, byPair, bySymbolPair,
                 updateCount, lastWrite>>

NextStore ==
  \/ \E p \in StorePools : Set(p)
  \/ \E batch \in Batches : SetBatch(batch)
  \/ \E a \in PoolAddrs : Remove(a)
  \/ \E a \in PoolAddrs, d \in BOOLEAN : SetDisabled(a, d)
  \/ \E l \in ListenerIds : OnChange(l)
  \/ \E l \in ListenerIds : Unsubscribe(l)


(***************************************************************************)
(* Claims about the aggregator store.                                      *)
(***************************************************************************)

\* C3: every secondary index is the exact inverse of the primary map: a key is
\* a member of byChain[c] iff the primary map holds a pool under that key whose
\* chainId is c, and likewise for the by-token, by-venue, by-address-pair and
\* by-symbol-pair indices.
C3_IndexesExactInverse ==
  \A k \in StoreKeys :
    LET p == pools[k]
        has == p # NoPool
    IN /\ \A c \in Chains : k \in byChain[c] <=> (has /\ p.chainId = c)
       /\ \A t \in TokenKeys :
            k \in byToken[t] <=>
              (has /\ t \in {ToLower(p.tokenPair.token0.address),
                             ToLower(p.tokenPair.token1.address)})
       /\ \A d \in DexNames : k \in byDex[d] <=> (has /\ p.dexName = d)
       /\ \A pk \in PairKeys :
            k \in byPair[pk] <=>
              (has /\ pk = makePairKey(p.tokenPair.token0.address,
                                        p.tokenPair.token1.address))
       /\ \A sk \in SymKeys :
            k \in bySymbolPair[sk] <=>
              (has /\ sk = makeSymKey(p.tokenPair.token0.symbol,
                                       p.tokenPair.token1.symbol))

\* The last two writes were set(p) and set(p) of one pool state p, the key was
\* absent before the first, and the same listeners were registered at both.
SetSameTwice ==
  /\ lastWrite.op = "set"
  /\ lastWrite.first # NoWrite
  /\ lastWrite.first.absentBefore

\* C10: setting the same pool state twice notifies each listener with exactly
\* one 'add' (first write) followed by exactly one 'update' (second write), in
\* registration order, and every secondary index set has the same size after
\* the second write as after the first.
C10_SetTwiceAddThenUpdate ==
  SetSameTwice =>
    LET w1 == lastWrite.first
        w2 == lastWrite
    IN /\ Len(w1.notes) = Len(w1.ls)
       /\ \A i \in 1..Len(w1.ls) : w1.notes[i] = <<w1.ls[i], "add">>
       /\ Len(w2.notes) = Len(w2.ls)
       /\ \A i \in 1..Len(w2.ls) : w2.notes[i] = <<w2.ls[i], "update">>
       /\ w2.sizes = w1.sizes

\* C10 witness: the same state was set twice with two listeners registered.
C10_Witness == SetSameTwice /\ Len(lastWrite.ls) = Cardinality(ListenerIds)

\* C11: remove(id) of a stored pool deletes it from the primary map and from
\* every secondary index and calls each listener exactly once, with 'remove';
\* afterwards no index lookup that returned the pool returns it.
C11_RemoveDeletesEverywhere ==
  [][\A a \in PoolAddrs :
       Remove(a) =>
         LET k == ToLower(a)
         IN /\ pools'[k] = NoPool
            /\ \A c \in Chains : k \notin byChain'[c]
            /\ \A t \in TokenKeys : k \notin byToken'[t]
            /\ \A d \in DexNames : k \notin byDex'[d]
            /\ \A pk \in PairKeys : k \notin byPair'[pk]
            /\ \A sk \in SymKeys : k \notin bySymbolPair'[sk]
            /\ lastWrite'.notes =
                 [i \in 1..Len(listeners) |-> <<listeners[i], "remove">>]
            /\ \A q \in LookupsReturning(CurStore, pools[k]) :
                 pools[k] \notin Lookup(CurStore', q)]_storeVars

\* C13: when the listeners are called for a write, the primary map and the
\* indices already hold it: after an 'add' a listener finds the pool under its
\* key and in every lookup that names the pool's chain, tokens, venue, address
\* pair and symbol pair; after a 'remove' it finds the key absent and the pool
\* in no lookup.
C13_IndexesWrittenBeforeNotify ==
  (lastWrite.op # "none" /\ lastWrite.notes # <<>>) =>
    /\ (lastWrite.op = "set" /\ lastWrite.absentBefore) =>
         /\ lastWrite.seenPrimary = lastWrite.pool
         /\ LookupsOf(lastWrite.pool) \subseteq lastWrite.seenLookups
    /\ lastWrite.op = "remove" =>
         /\ lastWrite.seenPrimary = NoPool
         /\ lastWrite.seenLookups = {}

\* C13 witness: two listeners were called for the removal of a pool.
C13_Witness ==
  /\ lastWrite.op = "remove"
  /\ Len(lastWrite.notes) = Cardinality(ListenerIds)

(***************************************************************************)
(* ======================  VENUE STATE STORE  ============================ *)
(* src/watcher/src/core/communication/types.ts (VenueStateStore)           *)
(***************************************************************************)
\* states, indexed (the ids index(state) was called for) and vsListeners are
\* the fields of VenueStateStore; vsLast records the last set / setBatch call:
\* the states it was given, the notifications made, whether it returned.
VARIABLES states, indexed, vsListeners, vsLast

venueVars == <<states, indexed, vsListeners, vsLast>>

NoVenueState == [id |-> "none"]
VenueIds == {"v1", "v2"}
VenueVersions == {1, 2}
VenueStates == {[id |-> i, version |-> n] : i \in VenueIds, n \in VenueVersions}
VenueBatches == UNION {[1..n -> VenueStates] : n \in 1..MaxBatch}

VenueStoreRec(st, ix, run) == [states |-> st, indexed |-> ix, run |-> run]

\* set(state): states.set, index when new, then the listeners one after the
\* other with no try / catch.  The listener calls are appended to those the
\* enclosing call has already made.
venueSet(vs, state, ls) ==
  LET isNew == vs.states[state.id] = NoVenueState
      changeType == IF isNew THEN "add" ELSE "update"
  IN VenueStoreRec([vs.states EXCEPT ![state.id] = state],
                   IF isNew THEN vs.indexed \cup {state.id} ELSE vs.indexed,
                   notifyFrom(ls, 1, changeType, FALSE, vs.run))

\* setBatch(states): for (const state of states) this.set(state); an
\* exception of set leaves the loop
RECURSIVE venueSetBatch(_, _, _)
venueSetBatch(vs, batch, ls) ==
  IF batch = <<>> \/ vs.run.threw THEN vs
  ELSE venueSetBatch(venueSet(vs, Head(batch), ls), Tail(batch), ls)

NoVenueWrite == [op |-> "none"]

VenueWriteRec(op, batch, vs, ls) ==
  [op |-> op, batch |-> batch, ls |-> ls, notes |-> vs.run.notes,
   returned |-> ~vs.run.threw,
   written |-> {i \in 1..Len(batch) :
                  \E j \in i..Len(batch) :
                    batch[j].id = batch[i].id /\ vs.states[batch[i].id] = batch[j]}]

InitVenue ==
  /\ states = [i \in VenueIds |-> NoVenueState]
  /\ indexed = {}
  /\ vsListeners = <<>>
  /\ vsLast = NoVenueWrite

VenueSet(state) ==
  LET vs == venueSet(VenueStoreRec(states, indexed, NoRun), state, vsListeners)
  IN /\ states' = vs.states
     /\ indexed' = vs.indexed
     /\ vsLast' = VenueWriteRec("set", <<state>>, vs, vsListeners)
     /\ UNCHANGED vsListeners

VenueSetBatch(batch) ==
  LET vs == venueSetBatch(VenueStoreRec(states, indexed, NoRun), batch, vsListeners)
  IN /\ states' = vs.states
     /\ indexed' = vs.indexed
     /\ vsLast' = VenueWriteRec("setBatch", batch, vs, vsListeners)
     /\ UNCHANGED vsListeners

\* onChange(listener)
VenueOnChange(l) ==
  /\ indexOf(vsListeners, l) = 0
  /\ vsListeners' = Append(vsListeners, l)
  /\ UNCHANGED <<states, indexed, vsLast>>

\* the unsubscribe handle returned by onChange
VenueUnsubscribe(l) ==
  /\ indexOf(vsListeners, l) > 0
  /\ vsListeners' = [i \in 1..(Len(vsListeners) - 1) |->
                       IF i < indexOf(vsListeners, l) THEN vsListeners[i]
                       ELSE vsListeners[i + 1]]
  /\ UNCHANGED <<states, indexed, vsLast>>

NextVenue ==
  \/ \E st \in VenueStates : VenueSet(st)
  \/ \E batch \in VenueBatches : VenueSetBatch(batch)
  \/ \E l \in ListenerIds : VenueOnChange(l)
  \/ \E l \in ListenerIds : VenueUnsubscribe(l)

\* C12: a change listener that throws while it is notified of a set or remove
\* never aborts the write, in GlobalDataStore and in VenueStateStore alike:
\* the primary map holds the written state, every registered listener is
\* notified (those registered after the throwing one too), and the call
\* returns normally.
C12_ListenerThrowNeverAborts ==
  /\ (lastWrite.op # "none" /\ \E i \in 1..Len(lastWrite.ls) : lastWrite.ls[i] \in Throwers) =>
       /\ lastWrite.returned
       /\ Len(lastWrite.notes) = Len(lastWrite.ls)
       /\ \A i \in 1..Len(lastWrite.ls) : lastWrite.notes[i][1] = lastWrite.ls[i]
       /\ lastWrite.seenPrimary = IF lastWrite.op = "set" THEN lastWrite.pool ELSE NoPool
  /\ (vsLast.op # "none" /\ \E i \in 1..Len(vsLast.ls) : vsLast.ls[i] \in Throwers) =>
       /\ vsLast.returned
       /\ Len(vsLast.notes) = Len(vsLast.ls) * Len(vsLast.batch)
       /\ vsLast.written = 1..Len(vsLast.batch)

(***************************************************************************)
(* ======================  REQUEST / RESPONSE BUS  ======================= *)
(* src/watcher/src/core/communication/worker-manager.ts (main thread)      *)
(* src/unnamed/part_020 (BaseWorker), workers/watcher-evm/index.ts         *)
(***************************************************************************)
\* Main thread: workers, pendingRequests and requestIdCounter are the fields
\* of WorkerManager; calls[n + 1] is the handle returned by the n-th
\* sendRequest together with its timer; term is the position of each
\* terminateWorker call.  Worker side: thread, isInitialized, initRunning.
\* In flight: inbox (main -> worker), outbox (worker -> main), errorEvents.
VARIABLES workers, pendingRequests, requestIdCounter, calls, term,
          thread, isInitialized, initRunning, inbox, outbox, errorEvents

busVars == <<workers, pendingRequests, requestIdCounter, calls, term,
             thread, isInitialized, initRunning, inbox, outbox, errorEvents>>

DEFAULT_TIMEOUT_MS == 10000

\* Worker ids are character strings
ETH == <<"e", "t", "h">>
WorkerIds == {ETH}

\* Requests of the callers: name and, for init, whether the config has an id
Requests == {[name |-> "init", hasId |-> TRUE], [name |-> "init", hasId |-> FALSE],
             [name |-> "status", hasId |-> FALSE]}

Digits == <<"0", "1", "2", "3", "4", "5", "6", "7", "8", "9">>

\* Number -> decimal string, as the template literal `${requestIdCounter}`
RECURSIVE NatToStr(_)
NatToStr(n) ==
  IF n < 10 THEN <<Digits[n + 1]>>
  ELSE NatToStr(n \div 10) \o <<Digits[(n % 10) + 1]>>

\* `${workerId}-${requestIdCounter}`
makeCorrelationId(workerId, n) == workerId \o <<"-">> \o NatToStr(n)

\* String.prototype.startsWith
startsWith(s, prefix) ==
  /\ Len(s) >= Len(prefix)
  /\ SubSeq(s, 1, Len(prefix)) = prefix

\* The entries a sweep of worker `id` goes through
SweepMatchesNone(correlationId, id) == FALSE
SweepMatches(correlationId, id) == startsWith(correlationId, id \o <<"-">>)

\* The setTimeout(..., DEFAULT_TIMEOUT_MS) of a request is due
TimerDueAlways(elapsed) == TRUE
TimerDue(elapsed) == elapsed >= DEFAULT_TIMEOUT_MS

NoTerm == [state |-> "none"]

\* A request handle: pending, or settled as resolved / rejected with a reason
\* The values a response carries: a field left out, the data object of a
\* success response, the error object of an error response
Undefined == [kind |-> "undefined"]
SuccessData == [kind |-> "data", success |-> TRUE]
ErrorObject(message) == [kind |-> "error", message |-> message]

HasErrorNever(message) == FALSE

\* handleResponse: if (message.error) - an object is truthy, a field left
\* out is not
HasError(message) == message.error # Undefined

\* value: what the handle was resolved or rejected with by a response
NewCall(workerId, name, correlationId) ==
  [workerId |-> workerId, name |-> name, correlationId |-> correlationId,
   handle |-> "pending", reason |-> "none", timer |-> TRUE, elapsed |-> 0,
   value |-> Undefined]

CallIds == 1..Len(calls)

settleKeepTimer(cs, n, handle, reason) ==
  [cs EXCEPT ![n].handle = handle, ![n].reason = reason]

\* settle handle n (reject / resolve); clearTimeout or the timer having fired.
\* elapsed stays as the age of the request only when its timer fired.
settle(cs, n, handle, reason) ==
  [cs EXCEPT ![n].handle = handle, ![n].reason = reason, ![n].timer = FALSE,
             ![n].elapsed = IF reason = "timeout" THEN @ ELSE 0]

\* for (const [correlationId, pending] of this.pendingRequests)
\*   if (correlationId.startsWith(`${id}-`)) { clearTimeout; reject; delete }
sweepCalls(cs, pend, id, reason) ==
  [n \in 1..Len(cs) |->
     IF cs[n].correlationId \in pend /\ SweepMatches(cs[n].correlationId, id)
     THEN settle(cs, n, "rejected", reason)[n]
     ELSE cs[n]]

sweepPending(pend, id) == {c \in pend : ~SweepMatches(c, id)}

\* worker.postMessage(request): lost when the worker thread no longer runs
postToWorker(ib, w, msg) ==
  IF thread[w] = "running" THEN [ib EXCEPT ![w] = Append(@, msg)] ELSE ib

\* A terminateWorker call whose awaited stop request has settled resumes
\* before any other task of the main thread runs.
ResumeReady(w) ==
  /\ term[w].state = "awaiting"
  /\ calls[term[w].call].handle # "pending"

MainIdle == \A w \in WorkerIds : ~ResumeReady(w)

InitBus ==
  /\ workers = {}
  /\ pendingRequests = {}
  /\ requestIdCounter = 0
  /\ calls = <<>>
  /\ term = [w \in WorkerIds |-> NoTerm]
  /\ thread = [w \in WorkerIds |-> "none"]
  /\ isInitialized = [w \in WorkerIds |-> FALSE]
  /\ initRunning = [w \in WorkerIds |-> {}]
  /\ inbox = [w \in WorkerIds |-> <<>>]
  /\ outbox = [w \in WorkerIds |-> <<>>]
  /\ errorEvents = [w \in WorkerIds |-> FALSE]

\* spawnWorker(id, scriptPath); an id is spawned once
spawnWorker(id) ==
  /\ MainIdle
  /\ id \notin workers
  /\ thread[id] = "none"
  /\ workers' = workers \cup {id}
  /\ thread' = [thread EXCEPT ![id] = "running"]
  /\ UNCHANGED <<pendingRequests, requestIdCounter, calls, term, isInitialized,
                 initRunning, inbox, outbox, errorEvents>>

\* sendRequest(workerId, requestName, requestData); hasId: requestData.id is set.
\* Throws (no effect) when the worker is not in the map.
sendRequest(workerId, requestName, hasId) ==
  /\ MainIdle
  /\ workerId \in workers
  /\ requestIdCounter < MaxRequests
  /\ LET correlationId == makeCorrelationId(workerId, requestIdCounter)
     IN /\ requestIdCounter' = requestIdCounter + 1
        /\ calls' = Append(calls, NewCall(workerId, requestName, correlationId))
        /\ pendingRequests' = pendingRequests \cup {correlationId}
        /\ inbox' = postToWorker(inbox, workerId,
                                 [correlationId |-> correlationId,
                                  name |-> requestName, hasId |-> hasId])
  /\ UNCHANGED <<workers, term, thread, isInitialized, initRunning, outbox,
                 errorEvents>>

\* worker.onmessage -> handleResponse(message) for the next message of worker w
handleResponse(w) ==
  /\ MainIdle
  /\ outbox[w] # <<>>
  /\ LET message == Head(outbox[w])
         hit == {n \in CallIds : calls[n].correlationId = message.correlationId}
     IN /\ outbox' = [outbox EXCEPT ![w] = Tail(@)]
        /\ IF message.correlationId \notin pendingRequests
           THEN UNCHANGED <<calls, pendingRequests>>
           ELSE /\ pendingRequests' = pendingRequests \ {message.correlationId}
                /\ calls' = [n \in CallIds |->
                               IF n \in hit
                               THEN IF HasError(message)
                                    THEN [settle(calls, n, "rejected", "error-response")[n]
                                            EXCEPT !.value = message.error]
                                    ELSE [settle(calls, n, "resolved", "data")[n]
                                            EXCEPT !.value = message.data]
                               ELSE calls[n]]
  /\ UNCHANGED <<workers, requestIdCounter, term, thread, isInitialized,
                 initRunning, inbox, errorEvents>>

\* the setTimeout callback of call n
Timeout(n) ==
  /\ MainIdle
  /\ n \in CallIds
  /\ calls[n].timer
  /\ TimerDue(calls[n].elapsed)
  /\ pendingRequests' = pendingRequests \ {calls[n].correlationId}
  /\ calls' = settle(calls, n, "rejected", "timeout")
  /\ UNCHANGED <<workers, requestIdCounter, term, thread, isInitialized,
                 initRunning, inbox, outbox, errorEvents>>

\* TickMs milliseconds pass; a timer that is due fires before more time passes
Tick ==
  /\ MainIdle
  /\ \E n \in CallIds : calls[n].timer
  /\ \A n \in CallIds : calls[n].timer => ~TimerDue(calls[n].elapsed)
  /\ calls' = [n \in CallIds |->
                 IF calls[n].timer
                 THEN [calls[n] EXCEPT !.elapsed = @ + TickMs]
                 ELSE calls[n]]
  /\ UNCHANGED <<workers, pendingRequests, requestIdCounter, term, thread,
                 isInitialized, initRunning, inbox, outbox, errorEvents>>

\* worker.onerror for worker id
onerror(id) ==
  /\ MainIdle
  /\ errorEvents[id]
  /\ errorEvents' = [errorEvents EXCEPT ![id] = FALSE]
  /\ calls' = sweepCalls(calls, pendingRequests, id, "worker-error")
  /\ pendingRequests' = sweepPending(pendingRequests, id)
  /\ UNCHANGED <<workers, requestIdCounter, term, thread, isInitialized,
                 initRunning, inbox, outbox>>

\* terminateWorker(workerId) up to its await: sweep, then sendRequest('stop')
terminateWorker(workerId) ==
  /\ MainIdle
  /\ workerId \in workers
  /\ term[workerId].state = "none"
  /\ requestIdCounter < MaxRequests
  /\ LET correlationId == makeCorrelationId(workerId, requestIdCounter)
         swept == sweepCalls(calls, pendingRequests, workerId, "terminated")
     IN /\ requestIdCounter' = requestIdCounter + 1
        /\ calls' = Append(swept, NewCall(workerId, "stop", correlationId))
        /\ pendingRequests' =
             sweepPending(pendingRequests, workerId) \cup {correlationId}
        /\ inbox' = postToWorker(inbox, workerId,
                                 [correlationId |-> correlationId,
                                  name |-> "stop", hasId |-> FALSE])
        /\ term' = [term EXCEPT ![workerId] =
                      [state |-> "awaiting", call |-> Len(calls) + 1]]
  /\ UNCHANGED <<workers, thread, isInitialized, initRunning, outbox, errorEvents>>

\* terminateWorker(workerId) after its await: the stop request resolved ->
\* worker.terminate() and workers.delete(workerId); it was rejected -> the
\* rejection leaves terminateWorker and neither statement runs.
terminateWorkerResume(workerId) ==
  /\ ResumeReady(workerId)
  /\ IF calls[term[workerId].call].handle = "resolved"
     THEN /\ term' = [term EXCEPT ![workerId] = [state |-> "done"]]
          /\ workers' = workers \ {workerId}
          /\ thread' = [thread EXCEPT ![workerId] = "terminated"]
          /\ inbox' = [inbox EXCEPT ![workerId] = <<>>]
          /\ outbox' = [outbox EXCEPT ![workerId] = <<>>]
          /\ initRunning' = [initRunning EXCEPT ![workerId] = {}]
          /\ errorEvents' = [errorEvents EXCEPT ![workerId] = FALSE]
     ELSE /\ term' = [term EXCEPT ![workerId] = [state |-> "failed"]]
          /\ UNCHANGED <<workers, thread, inbox, outbox, initRunning, errorEvents>>
  /\ UNCHANGED <<pendingRequests, requestIdCounter, calls, isInitialized>>

\* self.postMessage({type: 'response', correlationId, data | error})
sendResponseMessage(ob, w, correlationId, data, error) ==
  [ob EXCEPT ![w] = Append(@, [correlationId |-> correlationId, data |-> data,
                               error |-> error])]

\* An uncaught error in worker w: the error event goes to the main thread and
\* the thread either carries on or stops running.
uncaught(w, dies) ==
  /\ errorEvents' = [errorEvents EXCEPT ![w] = TRUE]
  /\ thread' = [thread EXCEPT ![w] = IF dies THEN "dead" ELSE "running"]

\* BaseWorker: self.onmessage -> handleRequestMessage(message)
handleRequestMessage(w, dies) ==
  /\ thread[w] = "running"
  /\ inbox[w] # <<>>
  /\ LET message == Head(inbox[w])
         rest == Tail(inbox[w])
     IN IF ~isInitialized[w] /\ message.name # "init"
        THEN /\ ~dies
             /\ outbox' = sendResponseMessage(outbox, w, message.correlationId, Undefined,
                                                ErrorObject("Worker not initialized"))
             /\ inbox' = [inbox EXCEPT ![w] = rest]
             /\ UNCHANGED <<initRunning, errorEvents, thread>>
        ELSE IF message.name = "init"
        THEN IF ~message.hasId
             THEN /\ uncaught(w, dies)
                  /\ inbox' = [inbox EXCEPT ![w] = IF dies THEN <<>> ELSE rest]
                  /\ initRunning' = [initRunning EXCEPT ![w] = IF dies THEN {} ELSE @]
                  /\ UNCHANGED outbox
             ELSE /\ ~dies
                  /\ initRunning' = [initRunning EXCEPT ![w] = @ \cup {message.correlationId}]
                  /\ inbox' = [inbox EXCEPT ![w] = rest]
                  /\ UNCHANGED <<outbox, errorEvents, thread>>
        ELSE /\ ~dies
             /\ outbox' = sendResponseMessage(outbox, w, message.correlationId, SuccessData,
                                                Undefined)
             /\ inbox' = [inbox EXCEPT ![w] = rest]
             /\ UNCHANGED <<initRunning, errorEvents, thread>>
  /\ UNCHANGED <<workers, pendingRequests, requestIdCounter, calls, term,
                 isInitialized>>

initSettlesAlwaysInitialized(w, correlationId, ok) ==
  /\ thread[w] = "running"
  /\ correlationId \in initRunning[w]
  /\ initRunning' = [initRunning EXCEPT ![w] = @ \ {correlationId}]
  /\ isInitialized' = [isInitialized EXCEPT ![w] = TRUE]
  /\ outbox' = IF ok
               THEN sendResponseMessage(outbox, w, correlationId, SuccessData, Undefined)
               ELSE sendResponseMessage(outbox, w, correlationId, Undefined,
                                        ErrorObject("init failed"))
  /\ UNCHANGED <<workers, pendingRequests, requestIdCounter, calls, term,
                 thread, inbox, errorEvents>>

\* this.init(data) settles: .then -> isInitialized = true, success response;
\* .catch -> error response
initSettles(w, correlationId, ok) ==
  /\ thread[w] = "running"
  /\ correlationId \in initRunning[w]
  /\ initRunning' = [initRunning EXCEPT ![w] = @ \ {correlationId}]
  /\ isInitialized' = [isInitialized EXCEPT ![w] = @ \/ ok]
  /\ outbox' = IF ok
               THEN sendResponseMessage(outbox, w, correlationId, SuccessData, Undefined)
               ELSE sendResponseMessage(outbox, w, correlationId, Undefined,
                                        ErrorObject("init failed"))
  /\ UNCHANGED <<workers, pendingRequests, requestIdCounter, calls, term,
                 thread, inbox, errorEvents>>

CorrelationIds == {makeCorrelationId(w, n) : w \in WorkerIds, n \in 0..MaxRequests}

NextBus ==
  \/ \E id \in WorkerIds : spawnWorker(id)
  \/ \E w \in WorkerIds, r \in Requests : sendRequest(w, r.name, r.hasId)
  \/ \E w \in WorkerIds : handleResponse(w)
  \/ \E n \in CallIds : Timeout(n)
  \/ Tick
  \/ \E id \in WorkerIds : onerror(id)
  \/ \E w \in WorkerIds : terminateWorker(w)
  \/ \E w \in WorkerIds : terminateWorkerResume(w)
  \/ \E w \in WorkerIds, dies \in BOOLEAN : handleRequestMessage(w, dies)
  \/ \E w \in WorkerIds, c \in CorrelationIds, ok \in BOOLEAN : initSettles(w, c, ok)

\* Call n timed out: its handle is rejected with the timeout error.
TimedOut(n) == n \in CallIds /\ calls[n].reason = "timeout"

IsPending(n) == n \in CallIds /\ calls[n].handle = "pending"

\* C4: a request handle fails with the timeout error only once the default
\* 10 000 ms have elapsed since sendRequest, and from then on its correlation
\* id is not in the pending map; a pending handle always has its timer armed
\* and its entry in the map, and no handle stays pending forever: a handle
\* that gets no reply is settled by its timer.
C4_TimeoutCompletes ==
  /\ [](\A n \in CallIds :
         /\ TimedOut(n) =>
              /\ calls[n].handle = "rejected"
              /\ calls[n].elapsed >= DEFAULT_TIMEOUT_MS
              /\ calls[n].correlationId \notin pendingRequests
         /\ IsPending(n) =>
              /\ calls[n].timer
              /\ calls[n].correlationId \in pendingRequests)
  /\ \A n \in 1..MaxRequests : IsPending(n) ~> ~IsPending(n)

\* C4 witness: a request sent to a worker that never answered it (its message
\* was never taken up, or its init never settled) has timed out.
C4_Witness ==
  \E n \in CallIds :
    /\ TimedOut(n)
    /\ \A w \in WorkerIds :
         \A i \in 1..Len(outbox[w]) :
           outbox[w][i].correlationId # calls[n].correlationId

\* C5: the error sweep (onerror) and the termination sweep (the start of
\* terminateWorker) of worker w leave every request that was pending for w
\* rejected, with its timer cancelled and its entry removed from the pending
\* map.
C5_SweepFailsPending ==
  [][\A w \in WorkerIds :
       (onerror(w) \/ terminateWorker(w)) =>
         \A n \in CallIds :
           (calls[n].workerId = w /\ calls[n].correlationId \in pendingRequests) =>
             /\ calls'[n].handle = "rejected"
             /\ calls'[n].reason \in {"worker-error", "terminated"}
             /\ ~calls'[n].timer
             /\ calls[n].correlationId \notin pendingRequests']_busVars

\* C5 witness: a request that was pending when its worker was terminated has
\* been rejected by the sweep, its timer cancelled and its entry removed.
C5_Witness ==
  \E n \in CallIds :
    /\ calls[n].reason = "terminated"
    /\ calls[n].handle = "rejected"
    /\ ~calls[n].timer
    /\ calls[n].correlationId \notin pendingRequests
    /\ term[calls[n].workerId].state = "awaiting"

\* C14: when a response arrives whose correlation id matches a pending entry,
\* the request's handle completes with the response's data if the response
\* carries no error and fails with the response's error otherwise; the timer
\* is cancelled and the entry leaves the pending map.
C14_ResponseCompletesHandle ==
  [][\A w \in WorkerIds :
       (handleResponse(w) /\ Head(outbox[w]).correlationId \in pendingRequests) =>
         LET message == Head(outbox[w])
         IN /\ message.correlationId \notin pendingRequests'
            /\ \E n \in CallIds : calls[n].correlationId = message.correlationId
            /\ \A n \in CallIds :
                 calls[n].correlationId = message.correlationId =>
                   /\ calls[n].handle = "pending"
                   /\ ~calls'[n].timer
                   /\ IF message.error = Undefined
                      THEN /\ calls'[n].handle = "resolved"
                           /\ calls'[n].value = message.data
                      ELSE /\ calls'[n].handle = "rejected"
                           /\ calls'[n].value = message.error]_busVars

\* C14 witness: one handle has failed with the error of its response and
\* another has completed with the data of its response.
C14_Witness ==
  /\ \E n \in CallIds :
       /\ calls[n].handle = "rejected"
       /\ calls[n].value = ErrorObject("Worker not initialized")
  /\ \E n \in CallIds :
       calls[n].handle = "resolved" /\ calls[n].value = SuccessData

\* C6: a terminateWorker call always ends with the worker terminated and
\* removed from the worker map, whether the stop acknowledgement arrives, is
\* an error response, or never arrives.
C6_TerminateAlwaysRemoves ==
  \A w \in WorkerIds :
    term[w].state \in {"done", "failed"} =>
      (w \notin workers /\ thread[w] = "terminated")

\* C32: every request handle is completed at most once: once a handle has
\* been completed by a response, a timeout or a sweep, its timer is no longer
\* armed, no later step changes it, and a response whose correlation id is
\* not pending changes neither a handle nor the pending map.
C32_HandleCompletedOnce ==
  [][/\ \A n \in CallIds :
          calls[n].handle # "pending" =>
            /\ ~calls[n].timer
            /\ calls[n].correlationId \notin pendingRequests
            /\ calls'[n] = calls[n]
     /\ \A w \in WorkerIds :
          (handleResponse(w) /\ Head(outbox[w]).correlationId \notin pendingRequests) =>
            /\ pendingRequests' = pendingRequests
            /\ calls' = calls]_busVars

\* C32 witness: a status request timed out, the worker's response to it
\* arrived afterwards and has been handled
C32_Witness ==
  \E n \in CallIds :
    /\ TimedOut(n)
    /\ calls[n].name = "status"
    /\ thread[calls[n].workerId] = "running"
    /\ \A i \in 1..Len(inbox[calls[n].workerId]) :
         inbox[calls[n].workerId][i].correlationId # calls[n].correlationId
    /\ \A i \in 1..Len(outbox[calls[n].workerId]) :
         outbox[calls[n].workerId][i].correlationId # calls[n].correlationId

\* the responses with correlation id c that a step of worker w posts
ResponsesPosted(w, c) ==
  Cardinality({i \in (Len(outbox[w]) + 1)..Len(outbox'[w]) :
                 outbox'[w][i].correlationId = c})

\* C34: a watcher worker answers every request message it receives with
\* exactly one response carrying the request's correlation id, whatever the
\* request name, the initialisation state or the outcome of init or of the
\* handler: the step that takes the request posts that one response or leaves
\* an init running, and an init that settles posts exactly one.
C34_OneResponsePerRequest ==
  [][\A w \in WorkerIds :
       /\ \A dies \in BOOLEAN :
            handleRequestMessage(w, dies) =>
              LET c == Head(inbox[w]).correlationId
              IN \/ ResponsesPosted(w, c) = 1 /\ c \notin initRunning'[w]
                 \/ ResponsesPosted(w, c) = 0 /\ c \in initRunning'[w]
       /\ \A c \in CorrelationIds, ok \in BOOLEAN :
            initSettles(w, c, ok) =>
              ResponsesPosted(w, c) = 1 /\ c \notin initRunning'[w]]_busVars

\* C35: a watcher worker leaves its uninitialised state only when init() has
\* succeeded: until then a request other than 'init' is answered with the
\* 'Worker not initialized' error response and not passed to the handler,
\* and a failed init leaves the worker uninitialised.
C35_InitialisedOnlyByInit ==
  [][\A w \in WorkerIds :
       /\ (~isInitialized[w] /\ isInitialized'[w]) =>
            \E c \in initRunning[w] : initSettles(w, c, TRUE)
       /\ \A c \in CorrelationIds :
            initSettles(w, c, FALSE) => isInitialized'[w] = isInitialized[w]
       /\ \A dies \in BOOLEAN :
            (handleRequestMessage(w, dies) /\ ~isInitialized[w]
               /\ Head(inbox[w]).name # "init") =>
              /\ outbox'[w] = Append(outbox[w],
                                     [correlationId |-> Head(inbox[w]).correlationId,
                                      data |-> Undefined,
                                      error |-> ErrorObject("Worker not initialized")])
              /\ isInitialized'[w] = isInitialized[w]]_busVars

\* C35 witness: an init failed, the worker is still uninitialised, and a
\* status request has been turned down since
C35_Witness ==
  \E w \in WorkerIds :
    /\ ~isInitialized[w]
    /\ \E n \in CallIds :
         /\ calls[n].name = "init"
         /\ calls[n].value = ErrorObject("init failed")
    /\ \E i \in 1..Len(outbox[w]) :
         outbox[w][i].error = ErrorObject("Worker not initialized")

(***************************************************************************)
(* ==========================  CHAIN WATCHER  ============================ *)
(* src/watcher/src/workers/watcher-evm/core/block-manager.ts (BlockManager)*)
(* src/unnamed/part_008 (PoolStatesManager), core/dex-registry.ts,         *)
(* core/adapters/uniswap-v2.ts, workers/watcher-evm/index.ts (EVMWorker)   *)
(***************************************************************************)
\* phase: "constructed" until EVMWorker.init has run, then "listening".
\* PoolStatesManager: poolStates maps a pool id to the pool object it holds
\* (0: no entry), heap gives the fields of each pool object,
\* latestPoolEventMeta.  introspecting: the events whose pool is being
\* introspected (handlePoolEvent suspended at its await).
\* BlockManager: poolAddressesSet, currentBlock, eventBuffer,
\* eventsProcessingTimer; recoveries: the running handleReorg calls and
\* where each stands; lastRecovery: the handleReorg call that ended last.  out: what the last step emitted on the event bus.
\* reorgs: number of handleReorg calls so far.
\* handled / maxSeen: number of pool events delivered, and the greatest
\* metadata among the events whose handling has finished.
VARIABLES phase, poolStates, heap, latestPoolEventMeta, introspecting,
          poolAddressesSet, currentBlock, eventBuffer, eventsProcessingTimer,
          recoveries, lastRecovery, reorgs, out, handled, maxSeen

watcherVars == <<phase, poolStates, heap, latestPoolEventMeta, introspecting,
                 poolAddressesSet, currentBlock, eventBuffer,
                 eventsProcessingTimer, recoveries, lastRecovery, reorgs, out,
                 handled, maxSeen>>

\* One V2 pool is watched
PoolIds == {"P"}

\* Pool objects: the one a pool id maps to, one per running refresh, and the
\* one an introspection is creating
ObjIds == 1..(MaxReorgs + 2)

\* (transactionIndex, logIndex) positions of the logs: every block has a log
\* at (0, 0) and block 1 has two more
LaterPositions == {<<0, 1>>, <<1, 0>>}

\* pool.latestEventMeta === undefined
NoMeta == [blockNumber |-> 0, transactionIndex |-> 0, logIndex |-> 0]

Metas ==
  {[blockNumber |-> b, transactionIndex |-> 0, logIndex |-> 0] : b \in 1..MaxBlock}
  \cup {[blockNumber |-> 1, transactionIndex |-> p[1], logIndex |-> p[2]] :
          p \in LaterPositions}

\* The reserves carried by the Sync log at a position of the chain
EventReserve(meta) ==
  100 * meta.blockNumber + 10 * meta.transactionIndex + meta.logIndex

\* V2 sync events
PoolEvents ==
  {[poolId |-> id, meta |-> m, reserve0 |-> EventReserve(m)] :
     id \in PoolIds, m \in Metas}

\* What contract.getReserves() returns during a refresh
RpcReserves == {7}

NoPoolState == [id |-> "none"]

\* isEventNewer(newEvent, lastEvent)
isEventNewer(newEvent, lastEvent) ==
  IF lastEvent = NoMeta THEN TRUE
  ELSE IF newEvent.blockNumber # lastEvent.blockNumber
       THEN newEvent.blockNumber > lastEvent.blockNumber
  ELSE IF newEvent.transactionIndex # lastEvent.transactionIndex
       THEN newEvent.transactionIndex > lastEvent.transactionIndex
  ELSE newEvent.logIndex > lastEvent.logIndex

\* the later of two metadata
maxMeta(a, b) == IF isEventNewer(a, b) THEN a ELSE b

\* uniswap-v2 initPool without an event: dynamic fields zero, no latestEventMeta
initPool(id) == [id |-> id, reserve0 |-> 0, latestEventMeta |-> NoMeta]

updatePoolFromEventReservesOnly(pool, event) ==
  [pool EXCEPT !.reserve0 = event.reserve0]

\* uniswap-v2 updatePoolFromEvent(pool, event)
updatePoolFromEvent(pool, event) ==
  [pool EXCEPT !.reserve0 = event.reserve0, !.latestEventMeta = event.meta]

\* uniswap-v2 updatePool(ctx, pool) once getReserves() has answered
updatePool(pool, reserves) == [pool EXCEPT !.reserve0 = reserves]

\* The pool object stored for id
stored(id) == heap[poolStates[id]]

\* Objects in use: held by the map or by a refresh that awaits its RPC
referenced(ps, recs) ==
  {ps[id] : id \in PoolIds} \cup
  {recs[r].obj : r \in {k \in DOMAIN recs : recs[k].pc = "refresh"}}

\* new object: an id nothing refers to
alloc(ps, recs) ==
  CHOOSE o \in ObjIds :
    /\ o \notin referenced(ps, recs)
    /\ \A o2 \in ObjIds : o2 \notin referenced(ps, recs) => o <= o2

\* objects nothing refers to any more are dropped
collect(h, ps, recs) ==
  [o \in ObjIds |-> IF o \in referenced(ps, recs) THEN h[o] ELSE NoPoolState]

\* eventBus.emitNewBlock / emitApplicationEvent / emitPoolEventsBatch
newBlock(n) == <<"newBlock", n>>
reorgDetected(b) == <<"reorg-detected", b>>
poolStatesUpdated == <<"pool-states-updated", 0>>
newBlocksOf(emitted) == {emitted[i][2] : i \in {k \in 1..Len(emitted) : emitted[k][1] = "newBlock"}}
poolEventsBatch(events) == <<"pool-events-batch", events>>
batchesOf(emitted) == {emitted[i][2] : i \in {k \in 1..Len(emitted) : emitted[k][1] = "pool-events-batch"}}

BatchOfBufferTail(buffer) == Tail(buffer)

\* processPoolEventsBatch: const events = [...this.eventBuffer]
BatchOfBuffer(buffer) == buffer

\* handleReorg up to its first await: emit reorg-detected, then cleanup()
\* (which purges the buffer)
handleReorgStartPurgeFirst(purged) == <<"purge", "reorg-detected">>
handleReorgStart(purged) == <<"reorg-detected", "purge">>

\* newBlockNumber <= prevBlockNumber
IsReorgStrict(newBlockNumber, prevBlockNumber) == newBlockNumber < prevBlockNumber
IsReorg(newBlockNumber, prevBlockNumber) == newBlockNumber <= prevBlockNumber

\* At most MaxReorgs handleReorg calls are made, each in a slot of its own
RecoverySlots == 1..MaxReorgs

NoRecovery == [pc |-> "idle"]

InitWatcher ==
  /\ phase = "constructed"
  /\ poolStates = [id \in PoolIds |-> 0]
  /\ heap = [o \in ObjIds |-> NoPoolState]
  /\ latestPoolEventMeta = [id \in PoolIds |-> NoMeta]
  /\ introspecting = {}
  /\ poolAddressesSet = {}
  /\ currentBlock = 0
  /\ eventBuffer = <<>>
  /\ eventsProcessingTimer = FALSE
  /\ recoveries = [r \in RecoverySlots |-> NoRecovery]
  /\ lastRecovery = NoRecovery
  /\ reorgs = 0
  /\ out = <<>>
  /\ handled = 0
  /\ maxSeen = [id \in PoolIds |-> NoMeta]

\* A handleReorg call: the block number that triggered it, where it stands
\* (fetchBlock: init() awaits getBlockNumber; refresh: updateAll awaits
\* updatePool(obj)) and the effects it has had so far, in order.
NewRecovery(b, purged) ==
  [blockNumber |-> b, pc |-> "fetchBlock", obj |-> 0,
   trace |-> handleReorgStart(purged)]

Running(r) == r \in RecoverySlots /\ recoveries[r].pc # "idle"

freeSlot == CHOOSE r \in RecoverySlots :
              /\ recoveries[r].pc = "idle"
              /\ \A r2 \in RecoverySlots : recoveries[r2].pc = "idle" => r <= r2

\* A handleReorg call that has ended (pc done / failed); accepted: an event
\* has been applied since
Ended(rec, pc, trace) ==
  [blockNumber |-> rec.blockNumber, pc |-> pc, trace |-> trace, accepted |-> FALSE]

markAccepted(last) ==
  IF last.pc = "done" THEN [last EXCEPT !.accepted = TRUE] ELSE last

\* PoolStatesManager.handlePoolEvent(event) for a pool the map holds: no await
handleKnownPoolEvent(event) ==
  LET id == event.poolId
      o == poolStates[id]
      pool == heap[o]
      newer == isEventNewer(event.meta, pool.latestEventMeta)
  IN /\ heap' = IF newer THEN [heap EXCEPT ![o] = updatePoolFromEvent(pool, event)]
                ELSE heap
     /\ latestPoolEventMeta' =
          IF newer THEN [latestPoolEventMeta EXCEPT ![id] = event.meta]
          ELSE latestPoolEventMeta
     /\ lastRecovery' = IF newer THEN markAccepted(lastRecovery) ELSE lastRecovery
     /\ maxSeen' = [maxSeen EXCEPT ![id] = maxMeta(event.meta, @)]
     /\ UNCHANGED <<poolStates, recoveries>>

\* EVMWorker.init: discoverAndRegisterPools, BlockManager.init (current block
\* := provider's latest, emitNewBlock), listenBlockEvents, listenPoolEvents.
\* Nothing is subscribed before it ends.
workerInit(latest, discovered) ==
  /\ phase = "constructed"
  /\ phase' = "listening"
  /\ LET ps == [id \in PoolIds |-> IF id \in discovered THEN 1 ELSE 0]
     IN /\ poolStates' = ps
        /\ heap' = [o \in ObjIds |->
                      IF \E id \in PoolIds : ps[id] = o
                      THEN initPool(CHOOSE id \in PoolIds : ps[id] = o)
                      ELSE NoPoolState]
  /\ poolAddressesSet' = discovered
  /\ currentBlock' = latest
  /\ out' = <<newBlock(latest)>>
  /\ UNCHANGED <<latestPoolEventMeta, introspecting, eventBuffer,
                 eventsProcessingTimer, recoveries, lastRecovery, reorgs, handled,
                 maxSeen>>

\* BlockManager.handlePoolEvent(log): a log of an unmonitored pool is dropped;
\* parseLog needs the pool registered; then buffer, apply, (re)arm the timer
onLog(event) ==
  /\ phase = "listening"
  /\ handled < MaxEvents
  /\ event.poolId \in poolAddressesSet
  /\ poolStates[event.poolId] # 0
  /\ eventBuffer' = Append(eventBuffer, event.meta)
  /\ handleKnownPoolEvent(event)
  /\ eventsProcessingTimer' = TRUE
  /\ handled' = handled + 1
  /\ out' = <<>>
  /\ UNCHANGED <<phase, introspecting, poolAddressesSet, currentBlock, reorgs>>

\* PoolStatesManager.handlePoolEvent(event) called for a pool outside the log
\* subscription: applied at once when the map holds the pool, else suspended
\* at `await handleEventForUnknownPool(event)`
psmHandlePoolEvent(event) ==
  /\ phase = "listening"
  /\ handled < MaxEvents
  /\ event.poolId \notin poolAddressesSet
  /\ IF poolStates[event.poolId] # 0
     THEN /\ handleKnownPoolEvent(event)
          /\ UNCHANGED introspecting
     ELSE /\ introspecting' = introspecting \cup {event}
          /\ UNCHANGED <<poolStates, heap, latestPoolEventMeta, recoveries,
                         lastRecovery, maxSeen>>
  /\ handled' = handled + 1
  /\ out' = <<>>
  /\ UNCHANGED <<phase, poolAddressesSet, currentBlock, eventBuffer,
                 eventsProcessingTimer, reorgs>>

\* handlePoolEvent resumes after handleEventForUnknownPool: null (ok = FALSE)
\* -> warn; else a new pool object from initPool, the isEventNewer test
\* against that object, updatePoolFromEvent and the two map writes
introspectDone(event, ok) ==
  /\ event \in introspecting
  /\ introspecting' = introspecting \ {event}
  /\ LET id == event.poolId
         o == alloc(poolStates, recoveries)
         pool == initPool(id)
         ps2 == [poolStates EXCEPT ![id] = o]
     IN IF ok /\ isEventNewer(event.meta, pool.latestEventMeta)
        THEN /\ poolStates' = ps2
             /\ heap' = collect([heap EXCEPT ![o] = updatePoolFromEvent(pool, event)],
                                ps2, recoveries)
             /\ latestPoolEventMeta' = [latestPoolEventMeta EXCEPT ![id] = event.meta]
             /\ lastRecovery' = markAccepted(lastRecovery)
             /\ maxSeen' = [maxSeen EXCEPT ![id] = maxMeta(event.meta, @)]
        ELSE UNCHANGED <<poolStates, heap, latestPoolEventMeta, lastRecovery, maxSeen>>
  /\ out' = <<>>
  /\ UNCHANGED <<phase, poolAddressesSet, currentBlock, eventBuffer,
                 eventsProcessingTimer, recoveries, reorgs, handled>>

\* the debounce timer fires: processPoolEventsBatch()
processPoolEventsBatch ==
  /\ eventsProcessingTimer
  /\ eventsProcessingTimer' = FALSE
  /\ IF eventBuffer = <<>>
     THEN /\ out' = <<>>
          /\ UNCHANGED eventBuffer
     ELSE /\ out' = <<poolEventsBatch(BatchOfBuffer(eventBuffer))>>
          /\ eventBuffer' = <<>>
  /\ UNCHANGED <<phase, poolStates, heap, latestPoolEventMeta, introspecting,
                 poolAddressesSet, currentBlock, recoveries, lastRecovery, reorgs,
                 handled, maxSeen>>

\* the 'block' handler of listenBlockEvents; for newBlockNumber <= prev it runs
\* handleReorg up to `await this.init()`: emit reorg-detected, cleanup()
onBlock(newBlockNumber) ==
  /\ phase = "listening"
  /\ IF IsReorg(newBlockNumber, currentBlock)
     THEN /\ reorgs < MaxReorgs
          /\ reorgs' = reorgs + 1
          /\ out' = <<reorgDetected(newBlockNumber)>>
          /\ eventsProcessingTimer' = FALSE
          /\ currentBlock' = 0
          /\ eventBuffer' = <<>>
          /\ recoveries' = [recoveries EXCEPT
                              ![freeSlot] = NewRecovery(newBlockNumber, eventBuffer)]
     ELSE /\ currentBlock' = newBlockNumber
          /\ out' = <<newBlock(newBlockNumber)>>
          /\ UNCHANGED <<eventsProcessingTimer, eventBuffer, recoveries, reorgs>>
  /\ UNCHANGED <<phase, poolStates, heap, latestPoolEventMeta, introspecting,
                 poolAddressesSet, lastRecovery, handled, maxSeen>>

\* handleReorg resumes in init(): getBlockNumber answered `latest` (0: it
\* failed or gave no number -> init throws and handleReorg ends there).
\* Then current block := latest, emitNewBlock, and updateAll starts: with an
\* empty map it ends at once, else it awaits updatePool of the stored object.
initDone(r, latest) ==
  /\ Running(r)
  /\ recoveries[r].pc = "fetchBlock"
  /\ IF latest = 0
     THEN /\ recoveries' = [recoveries EXCEPT ![r] = NoRecovery]
          /\ lastRecovery' = Ended(recoveries[r], "failed", recoveries[r].trace)
          /\ out' = <<>>
          /\ UNCHANGED currentBlock
     ELSE LET t1 == recoveries[r].trace \o <<"block-reset", "newBlock">>
          IN /\ currentBlock' = latest
             /\ IF \A id \in PoolIds : poolStates[id] = 0
                THEN /\ recoveries' = [recoveries EXCEPT ![r] = NoRecovery]
                     /\ lastRecovery' =
                          Ended(recoveries[r], "done",
                                t1 \o <<"update-all-done", "pool-states-updated">>)
                     /\ out' = <<newBlock(latest), poolStatesUpdated>>
                ELSE /\ recoveries' =
                          [recoveries EXCEPT
                             ![r].pc = "refresh",
                             ![r].obj =
                               poolStates[CHOOSE id \in PoolIds : poolStates[id] # 0],
                             ![r].trace = t1 \o <<"refresh-start">>]
                     /\ out' = <<newBlock(latest)>>
                     /\ UNCHANGED lastRecovery
  /\ UNCHANGED <<phase, poolStates, heap, latestPoolEventMeta, introspecting,
                 poolAddressesSet, eventBuffer, eventsProcessingTimer, reorgs,
                 handled, maxSeen>>

\* updateAll resumes: updatePool answered (ok: the object gets the RPC
\* reserves and is put in the map under its id; else warn), the loop ends,
\* calculateAllPoolsLiquidityUSD re-sets every entry, pool-states-updated
refreshDone(r, ok, reserves) ==
  /\ Running(r)
  /\ recoveries[r].pc = "refresh"
  /\ LET o == recoveries[r].obj
         id == heap[o].id
         ps2 == IF ok THEN [poolStates EXCEPT ![id] = o] ELSE poolStates
         h2 == IF ok THEN [heap EXCEPT ![o] = updatePool(heap[o], reserves)] ELSE heap
         recs2 == [recoveries EXCEPT ![r] = NoRecovery]
     IN /\ poolStates' = ps2
        /\ heap' = collect(h2, ps2, recs2)
        /\ recoveries' = recs2
        /\ lastRecovery' =
             Ended(recoveries[r], "done",
                   recoveries[r].trace \o
                     <<IF ok THEN "refreshed" ELSE "refresh-failed",
                       "update-all-done", "pool-states-updated">>)
  /\ out' = <<poolStatesUpdated>>
  /\ UNCHANGED <<phase, latestPoolEventMeta, introspecting, poolAddressesSet,
                 currentBlock, eventBuffer, eventsProcessingTimer, reorgs, handled,
                 maxSeen>>

\* The watcher as EVMWorker wires it: pool events reach the manager through
\* BlockManager.handlePoolEvent only
NextWatcher ==
  \/ \E latest \in 1..MaxBlock, discovered \in SUBSET PoolIds :
       workerInit(latest, discovered)
  \/ \E e \in PoolEvents : onLog(e)
  \/ processPoolEventsBatch
  \/ \E n \in 1..MaxBlock : onBlock(n)
  \/ \E r \in RecoverySlots, latest \in 0..MaxBlock : initDone(r, latest)
  \/ \E r \in RecoverySlots, ok \in BOOLEAN, reserves \in RpcReserves :
       refreshDone(r, ok, reserves)

\* The watcher with PoolStatesManager.handlePoolEvent also called directly
NextManager ==
  \/ NextWatcher
  \/ \E e \in PoolEvents : psmHandlePoolEvent(e)
  \/ \E e \in PoolEvents, ok \in BOOLEAN : introspectDone(e, ok)

\* The metadata of the pool object stored for id (NoMeta: none, or no pool)
storedMeta(id) == IF poolStates[id] = 0 THEN NoMeta ELSE stored(id).latestEventMeta

C2_StoredStateIsOfMaxEvent ==
  \A id \in PoolIds :
    (poolStates[id] # 0 /\ stored(id).latestEventMeta # NoMeta) =>
      /\ stored(id).latestEventMeta = maxSeen[id]
      /\ stored(id).reserve0 = EventReserve(maxSeen[id])

\* C7 as stated: on a block notification n <= current the subscriber starts
\* reorg recovery and emits no newBlock event for n - neither in the handler
\* step nor in the recovery the handler runs.
C7_NoNewBlockForReorgBlock ==
  [][/\ \A n \in 1..MaxBlock :
          (onBlock(n) /\ n <= currentBlock) => n \notin newBlocksOf(out')
     /\ \A r \in RecoverySlots, latest \in 0..MaxBlock :
          initDone(r, latest) => recoveries[r].blockNumber \notin newBlocksOf(out')
    ]_watcherVars

\* C7 (amended): on a block notification n while the current block is c: if
\* n > c the current block becomes n and the step emits exactly one event,
\* newBlock(n); if n <= c the step starts a recovery for n (reorg-detected(n)
\* is the only event of the step, the current block is reset) and emits no
\* newBlock; the recovery, once the provider has answered, emits one newBlock
\* for the provider's latest block number, which becomes the current block.
C7_BlockNotification ==
  [][/\ \A n \in 1..MaxBlock :
          onBlock(n) =>
            IF n > currentBlock
            THEN /\ currentBlock' = n
                 /\ out' = <<newBlock(n)>>
                 /\ recoveries' = recoveries
            ELSE /\ out' = <<reorgDetected(n)>>
                 /\ \E r \in RecoverySlots :
                      /\ recoveries[r].pc = "idle"
                      /\ recoveries'[r].pc = "fetchBlock"
                      /\ recoveries'[r].blockNumber = n
     /\ \A r \in RecoverySlots, latest \in 1..MaxBlock :
          initDone(r, latest) =>
            /\ newBlocksOf(out') = {latest}
            /\ currentBlock' = latest
    ]_watcherVars

\* C7 witness: after a completed recovery, a block notification above the
\* current block has been taken: one newBlock for it, and it is current.
C7_Witness ==
  /\ lastRecovery.pc = "done"
  /\ \A r \in RecoverySlots : recoveries[r].pc = "idle"
  /\ currentBlock > 0
  /\ out = <<newBlock(currentBlock)>>

\* position of the first occurrence of an effect in a trace (0: absent)
posIn(trace, x) ==
  IF \E i \in 1..Len(trace) : trace[i] = x
  THEN CHOOSE i \in 1..Len(trace) :
         trace[i] = x /\ \A j \in 1..(i - 1) : trace[j] # x
  ELSE 0

RecoveryTraces ==
  {recoveries[r].trace : r \in {k \in RecoverySlots : recoveries[k].pc # "idle"}}
  \cup (IF lastRecovery.pc = "idle" THEN {} ELSE {lastRecovery.trace})

\* C8: in every reorg recovery, reorg-detected is emitted first, before the
\* buffer purge and before any refresh; pool-states-updated is emitted last,
\* after the current block has been reset to the provider's latest and after
\* updateAll has finished.
C8_RecoveryOrder ==
  \A t \in RecoveryTraces :
    /\ posIn(t, "reorg-detected") = 1
    /\ posIn(t, "purge") = 2
    /\ posIn(t, "refresh-start") # 0 => posIn(t, "refresh-start") > 2
    /\ posIn(t, "pool-states-updated") # 0 =>
         /\ posIn(t, "pool-states-updated") = Len(t)
         /\ posIn(t, "block-reset") # 0
         /\ posIn(t, "block-reset") < posIn(t, "update-all-done")
         /\ posIn(t, "update-all-done") < posIn(t, "pool-states-updated")
         /\ posIn(t, "refresh-start") # 0 =>
              \E i \in 1..Len(t) :
                /\ t[i] \in {"refreshed", "refresh-failed"}
                /\ posIn(t, "refresh-start") < i
                /\ i < posIn(t, "update-all-done")

\* C8 witness: a recovery that refreshed the pool has completed.
C8_Witness ==
  /\ lastRecovery.pc = "done"
  /\ posIn(lastRecovery.trace, "refreshed") # 0
  /\ out = <<poolStatesUpdated>>

\* C9: once a recovery triggered by block b has completed, the next pool event
\* delivered with blockNumber >= b is applied: the stored pool takes the
\* event's reserves and metadata.
C9_EventsAfterRecoveryAccepted ==
  [][\A e \in PoolEvents :
       (/\ onLog(e)
        /\ lastRecovery.pc = "done"
        /\ ~lastRecovery.accepted
        /\ \A r \in RecoverySlots : recoveries[r].pc = "idle"
        /\ e.meta.blockNumber >= lastRecovery.blockNumber) =>
         /\ stored(e.poolId)'.latestEventMeta = e.meta
         /\ stored(e.poolId)'.reserve0 = e.reserve0
         /\ latestPoolEventMeta'[e.poolId] = e.meta]_watcherVars

C16_BufferedEventsBatchedOnce ==
  [][/\ \A e \in PoolEvents :
          onLog(e) => /\ eventBuffer' = Append(eventBuffer, e.meta)
                      /\ eventsProcessingTimer'
     /\ IF processPoolEventsBatch
        THEN /\ eventBuffer' = <<>>
             /\ IF eventBuffer # <<>>
                THEN out' = <<poolEventsBatch(eventBuffer)>>
                ELSE batchesOf(out') = {}
        ELSE /\ batchesOf(out') = {}
             /\ \/ eventBuffer' = eventBuffer
                \/ \E e \in PoolEvents : onLog(e)
                \/ /\ \E n \in 1..MaxBlock : onBlock(n) /\ IsReorg(n, currentBlock)
                   /\ eventBuffer' = <<>>
     /\ eventBuffer' # <<>> => eventsProcessingTimer'
    ]_watcherVars

\* C16 witness: a batch of two events has been emitted and the buffer is empty.
C16_Witness ==
  /\ \E b \in batchesOf(out) : Len(b) = 2
  /\ eventBuffer = <<>>

(***************************************************************************)
(* ======================  WATCHER -> AGGREGATOR  ======================== *)
(* workers/watcher-evm/index.ts (setupEventPipeline), part_020             *)
(* (sendEventMessage), core/communication/worker-manager.ts (handleEvent)  *)
(***************************************************************************)
\* workerEvents: the event messages a watcher has posted to the main thread
\* and worker.onmessage has not yet taken
VARIABLES workerEvents

pipelineVars == <<workerEvents>>

InitPipeline == workerEvents = <<>>

\* PoolStatesManager.getPoolState(id) as postMessage copies it
getPoolState(id) == stored(id)

\* The onPoolEventsBatch callback of setupEventPipeline: the stored state of
\* the pool of every event of the batch, sent as one 'pool-update-batch'
poolUpdateBatch(events) ==
  [name |-> "pool-update-batch",
   updatedPoolStates |->
     [i \in 1..Len(events) |-> getPoolState(CHOOSE id \in PoolIds : TRUE)]]

\* A step of the watcher; the batches it emits on its event bus are sent on
\* to the main thread by the callback, within the step
watcherStep ==
  /\ NextWatcher
  /\ workerEvents' =
       IF batchesOf(out') = {} THEN workerEvents
       ELSE Append(workerEvents,
                   poolUpdateBatch(CHOOSE b \in batchesOf(out') : TRUE))
  /\ UNCHANGED storeVars

\* worker.onmessage -> WorkerManager.handleEvent(message): its body is empty
handleEvent ==
  /\ workerEvents # <<>>
  /\ workerEvents' = Tail(workerEvents)
  /\ UNCHANGED <<storeVars, watcherVars>>

NextPipeline == watcherStep \/ handleEvent

\* The primary map ps of the aggregator store holds an entry for a pool
\* state a watcher has sent
AggregatorHolds(ps, state) ==
  \E k \in StoreKeys : k = ToLower(state.id) /\ ps[k] # NoPool

\* C15: every pool state a watcher emits in a pool-update-batch event is
\* written into the aggregator store on the main thread: once the event has
\* been handled the aggregator holds the emitted state of each pool of the
\* batch.
C15_BatchReachesAggregator ==
  [][handleEvent =>
       LET message == Head(workerEvents)
       IN \A i \in 1..Len(message.updatedPoolStates) :
            AggregatorHolds(pools', message.updatedPoolStates[i])
    ]_<<storeVars, watcherVars, pipelineVars>>

(***************************************************************************)
(* ==================  POOL STATES MANAGER: FRESHNESS  =================== *)
(* src/unnamed/part_008 (PoolStatesManager.arePoolsFresh)                  *)
(***************************************************************************)
\* lastFresh: the arePoolsFresh call made, its argument, the metadata the
\* manager stored then, and what the call returned
VARIABLES lastFresh

freshVars == <<lastFresh>>

NoFreshCall == [called |-> FALSE]

InitFresh == lastFresh = NoFreshCall

\* The pool states a caller can hold: a pool as initPool made it, or as it
\* was after an event
PoolSnapshots ==
  {initPool(id) : id \in PoolIds} \cup
  {updatePoolFromEvent(initPool(e.poolId), e) : e \in PoolEvents}

FreshArgs == UNION {[1..n -> PoolSnapshots] : n \in 0..MaxBatch}

arePoolsFreshSome(lpem, poolList) ==
  \E i \in 1..Len(poolList) :
    LET currentPool == poolList[i]
        meta == lpem[currentPool.id]
    IN IF meta = NoMeta THEN TRUE
       ELSE ~isEventNewer(meta, currentPool.latestEventMeta)

\* arePoolsFresh(poolStates): every pool has no stored metadata, or the
\* stored metadata is not isEventNewer than the pool's
arePoolsFresh(lpem, poolList) ==
  \A i \in 1..Len(poolList) :
    LET currentPool == poolList[i]
        meta == lpem[currentPool.id]
    IN IF meta = NoMeta THEN TRUE
       ELSE ~isEventNewer(meta, currentPool.latestEventMeta)

\* One call is followed: arePoolsFresh reads the manager and changes nothing
arePoolsFreshCall(poolList) ==
  /\ ~lastFresh.called
  /\ lastFresh' = [called |-> TRUE, poolStates |-> poolList,
                   stored |-> latestPoolEventMeta,
                   result |-> arePoolsFresh(latestPoolEventMeta, poolList)]
  /\ UNCHANGED watcherVars

\* The manager's own steps: init, events of pools outside the subscription,
\* introspections
managerStep ==
  /\ \/ \E latest \in 1..MaxBlock, discovered \in SUBSET PoolIds :
          workerInit(latest, discovered)
     \/ \E e \in PoolEvents : psmHandlePoolEvent(e)
     \/ \E e \in PoolEvents, ok \in BOOLEAN : introspectDone(e, ok)
  /\ UNCHANGED lastFresh

NextFresh ==
  \/ managerStep
  \/ \E poolList \in FreshArgs : arePoolsFreshCall(poolList)

\* a is lexicographically smaller than b on (blockNumber, transactionIndex,
\* logIndex); both are present
lexSmaller(a, b) ==
  /\ a # NoMeta
  /\ b # NoMeta
  /\ \/ a.blockNumber < b.blockNumber
     \/ /\ a.blockNumber = b.blockNumber
        /\ \/ a.transactionIndex < b.transactionIndex
           \/ /\ a.transactionIndex = b.transactionIndex
              /\ a.logIndex < b.logIndex

\* C19 as stated: arePoolsFresh returns true if and only if, for every pool
\* of the set, the stored latestPoolEventMeta of the pool is not older
\* (lexicographically smaller) than the pool's own latestEventMeta.
C19_FreshIffStoredNotOlder ==
  lastFresh.called =>
    (lastFresh.result <=>
       \A i \in 1..Len(lastFresh.poolStates) :
         ~lexSmaller(lastFresh.stored[lastFresh.poolStates[i].id],
                     lastFresh.poolStates[i].latestEventMeta))

\* C19 amended: arePoolsFresh returns true if and only if, for every pool of
\* the set, the manager stores no latestPoolEventMeta for the pool, or the
\* pool has a latestEventMeta and the stored one is not newer
\* (lexicographically greater) than it.
C19_FreshIffStoredNotNewer ==
  lastFresh.called =>
    (lastFresh.result <=>
       \A i \in 1..Len(lastFresh.poolStates) :
         LET meta == lastFresh.stored[lastFresh.poolStates[i].id]
             own == lastFresh.poolStates[i].latestEventMeta
         IN \/ meta = NoMeta
            \/ own # NoMeta /\ ~lexSmaller(own, meta))

\* a call on two pools, one stale and one not, after an event was stored
C19_Witness ==
  /\ lastFresh.called
  /\ ~lastFresh.result
  /\ Len(lastFresh.poolStates) = 2
  /\ \E i, j \in 1..2 :
       /\ lexSmaller(lastFresh.poolStates[i].latestEventMeta,
                     lastFresh.stored[lastFresh.poolStates[i].id])
       /\ lastFresh.poolStates[j].latestEventMeta =
            lastFresh.stored[lastFresh.poolStates[j].id]

(***************************************************************************)
(* ==================  POOL STATES MANAGER: updateAll  =================== *)
(* src/unnamed/part_008 (PoolStatesManager.updateAll)                      *)
(***************************************************************************)
\* poolEntries: the poolStates map of a manager of several pools, as its
\* entries in insertion order (the order a Map iterates in).
\* updateRun: the updateAll call: where it stands (awaiting: suspended at
\* `await dexRegistry.updatePool(pool)` for the entry at pos), the ids it has
\* called updatePool for, the ids it has warned about, the calls made so far.
VARIABLES poolEntries, updateRun

updateAllVars == <<poolEntries, updateRun>>

ManagedIds == {"P", "Q"}

\* Sync events of the managed pools, one per block
ManagedEvents ==
  {[poolId |-> id,
    meta |-> [blockNumber |-> b, transactionIndex |-> 0, logIndex |-> 0],
    reserve0 |-> EventReserve([blockNumber |-> b, transactionIndex |-> 0, logIndex |-> 0])] :
     id \in ManagedIds, b \in 1..MaxBlock}

\* Map.has / Map.get / Map.set on the entries
mapHas(entries, id) == \E i \in 1..Len(entries) : entries[i].id = id
mapGet(entries, id) ==
  entries[CHOOSE i \in 1..Len(entries) : entries[i].id = id].pool
mapSet(entries, id, pool) ==
  IF mapHas(entries, id)
  THEN [i \in 1..Len(entries) |->
          IF entries[i].id = id THEN [id |-> id, pool |-> pool] ELSE entries[i]]
  ELSE Append(entries, [id |-> id, pool |-> pool])

IdleRun ==
  [pc |-> "idle", pos |-> 0, attempted |-> <<>>, warned |-> <<>>, calls |-> 0]

InitUpdateAll ==
  /\ poolEntries = <<>>
  /\ updateRun = IdleRun

\* discoverAndRegisterPools: a pool the map does not hold is set
registerPool(id) ==
  /\ ~mapHas(poolEntries, id)
  /\ poolEntries' = mapSet(poolEntries, id, initPool(id))
  /\ UNCHANGED updateRun

\* handlePoolEvent(event) for a pool the map holds
managedPoolEvent(event) ==
  /\ mapHas(poolEntries, event.poolId)
  /\ LET pool == mapGet(poolEntries, event.poolId)
     IN poolEntries' =
          IF isEventNewer(event.meta, pool.latestEventMeta)
          THEN mapSet(poolEntries, event.poolId, updatePoolFromEvent(pool, event))
          ELSE poolEntries
  /\ UNCHANGED updateRun

catchUpdateErrorRethrow(run, id) == [run EXCEPT !.pc = "rejected"]

\* catch (error) { this.logger.warn(`Failed to update pool ${id}`) }
catchUpdateError(run, id) == [run EXCEPT !.warned = Append(@, id)]

\* The for-of over poolStates.entries() moves on: the next entry of the map
\* as it is now, or the end of updateAll
nextEntry(run, entries) ==
  IF run.pc = "rejected" THEN run
  ELSE IF run.pos < Len(entries)
       THEN [run EXCEPT !.pc = "awaiting", !.pos = @ + 1,
                        !.attempted = Append(@, entries[run.pos + 1].id)]
       ELSE [run EXCEPT !.pc = "resolved"]

\* updateAll() up to its first await; one call at a time, as many as reorgs
updateAll ==
  /\ updateRun.pc \in {"idle", "resolved"}
  /\ updateRun.calls < MaxReorgs
  /\ updateRun' =
       nextEntry([IdleRun EXCEPT !.calls = updateRun.calls + 1], poolEntries)
  /\ UNCHANGED poolEntries

\* updateAll resumes: updatePool answered (ok) or threw
updatePoolDone(ok, reserves) ==
  /\ updateRun.pc = "awaiting"
  /\ LET id == poolEntries[updateRun.pos].id
         pool == poolEntries[updateRun.pos].pool
         entries2 == IF ok THEN mapSet(poolEntries, id, updatePool(pool, reserves))
                     ELSE poolEntries
         run2 == IF ok THEN updateRun ELSE catchUpdateError(updateRun, id)
     IN /\ poolEntries' = entries2
        /\ updateRun' = nextEntry(run2, entries2)

NextUpdateAll ==
  \/ \E id \in ManagedIds : registerPool(id)
  \/ \E e \in ManagedEvents : managedPoolEvent(e)
  \/ updateAll
  \/ \E ok \in BOOLEAN, reserves \in RpcReserves : updatePoolDone(ok, reserves)

\* C20: updateAll attempts a refresh of every pool of the map; a refresh
\* that fails is logged, leaves the pool's entry as it is, does not make
\* updateAll fail, and the refresh of the next pool follows; updateAll ends
\* having attempted every entry of the map, each once, in order.
C20_UpdateAllSurvivesFailures ==
  [][\A ok \in BOOLEAN, reserves \in RpcReserves :
       updatePoolDone(ok, reserves) =>
         LET pos == updateRun.pos
             id == poolEntries[pos].id
         IN /\ ~ok => /\ poolEntries' = poolEntries
                       /\ updateRun'.warned = Append(updateRun.warned, id)
            /\ updateRun'.pc # "rejected"
            /\ IF pos < Len(poolEntries)
               THEN /\ updateRun'.pc = "awaiting"
                    /\ updateRun'.attempted =
                         Append(updateRun.attempted, poolEntries[pos + 1].id)
               ELSE /\ updateRun'.pc = "resolved"
                    /\ updateRun'.attempted =
                         [i \in 1..Len(poolEntries') |-> poolEntries'[i].id]
    ]_updateAllVars

\* the refresh of the first pool failed, the second pool was refreshed all
\* the same, and updateAll ended
C20_Witness ==
  /\ updateRun.pc = "resolved"
  /\ Len(updateRun.attempted) = 2
  /\ updateRun.warned = <<updateRun.attempted[1]>>
  /\ poolEntries[2].pool.reserve0 \in RpcReserves

(***************************************************************************)
(* ==========================  PRICE ORACLE  ============================= *)
(* src/unnamed/part_003 (PriceOracle)                                      *)
(***************************************************************************)
\* prices: the map "chainId:tokenAddress" -> USD price of PriceOracle.  The
\* prices and spot prices of the model are powers of two, 2^exp with
\* -MaxExp <= exp <= MaxExp, on which the floating-point division is exact.
VARIABLES prices

oracleVars == <<prices>>

NoPrice == [known |-> FALSE]
Price(exp) == [known |-> TRUE, exp |-> exp]

\* 1.0
One == Price(0)

\* a / b for a price a and a spot price b > 0
Div(a, b) == Price(a.exp - b.exp)

\* `${chainId}:${address.toLowerCase()}`
priceKey(chainId, address) == <<chainId, ToLower(address)>>

\* The anchors handed to the constructor
Stablecoins ==
  {[chainId |-> 1, address |-> "0xusdc"], [chainId |-> 1, address |-> "0xdai"],
   [chainId |-> 2, address |-> "0xusdc"]}

OracleKeys == {priceKey(c, t.address) : c \in Chains, t \in Tokens}

\* Spot prices of a pool: 0 (not yet computed) or a power of two
ZeroSpot == [positive |-> FALSE]
Spot(exp) == [positive |-> TRUE, exp |-> exp]
SpotPairs ==
  {<<ZeroSpot, ZeroSpot>>} \cup {<<Spot(e), Spot(0 - e)>> : e \in {-1, 1}}

\* The pools the oracle hears of: three pairs on chain 1, one on chain 2
OracleChainPairs ==
  {<<1, tp>> : tp \in StoreTokenPairs \cup {[token0 |-> USDC, token1 |-> DAI]}}
    \cup {<<2, [token0 |-> WETH, token1 |-> USDC]>>}

\* The pools handed to onPoolUpdated
OraclePools ==
  {[venue |-> [chainId |-> cp[1]], tokenPair |-> cp[2], spotPrice0to1 |-> sp[1],
    spotPrice1to0 |-> sp[2]] : cp \in OracleChainPairs, sp \in SpotPairs}

\* constructor(stablecoins): prices.set(key, 1.0) for every anchor
InitOracle ==
  prices = [k \in OracleKeys |->
              IF \E st \in Stablecoins : priceKey(st.chainId, st.address) = k
              THEN One ELSE NoPrice]

\* getUSDPrice(chainId, tokenAddress)
getUSDPrice(ps, chainId, tokenAddress) == ps[priceKey(chainId, tokenAddress)]

\* derivePrice(pool): both prices are read first, then token1's price is set
\* from token0's and token0's from token1's
derivePrice(ps, pool) ==
  LET key0 == priceKey(pool.venue.chainId, pool.tokenPair.token0.address)
      key1 == priceKey(pool.venue.chainId, pool.tokenPair.token1.address)
      price0 == ps[key0]
      price1 == ps[key1]
      ps1 == IF price0.known /\ pool.spotPrice0to1.positive
             THEN [ps EXCEPT ![key1] = Div(price0, pool.spotPrice0to1)]
             ELSE ps
  IN IF price1.known /\ pool.spotPrice1to0.positive
     THEN [ps1 EXCEPT ![key0] = Div(price1, pool.spotPrice1to0)]
     ELSE ps1

\* onPoolUpdated(pools): for (const pool of pools) this.derivePrice(pool)
RECURSIVE derivePrices(_, _)
derivePrices(ps, poolList) ==
  IF poolList = <<>> THEN ps
  ELSE derivePrices(derivePrice(ps, Head(poolList)), Tail(poolList))

InPriceRange(ps) ==
  \A k \in OracleKeys : ps[k].known => (ps[k].exp >= 0 - MaxExp /\ ps[k].exp <= MaxExp)

onPoolUpdated(poolList) ==
  /\ InPriceRange(derivePrices(prices, poolList))
  /\ prices' = derivePrices(prices, poolList)

NextOracle ==
  \E poolList \in UNION {[1..n -> OraclePools] : n \in 1..MaxBatch} :
    onPoolUpdated(poolList)

\* C18: the price of every stable-coin anchor is exactly 1.0, after the
\* construction and after any sequence of onPoolUpdated calls.
C18_AnchorsStayOne ==
  \A st \in Stablecoins : getUSDPrice(prices, st.chainId, st.address) = One

(***************************************************************************)
(* ====================  DELIVERY OF POOL LOGS  ========================== *)
(* block-manager.ts (handlePoolEvent, parseLog), part_008                  *)
(* (PoolStatesManager.handlePoolEvent), dex-registry.ts and the V2 / V3    *)
(* adapters' updatePoolFromEvent, with the events of part_013              *)
(***************************************************************************)
\* A watcher after init with a V2 pool at 0xaa and a V3 pool at 0xbb, both
\* monitored, and a V2 pool at 0xcc registered after the subscription was
\* made, so not monitored.  chainPools: poolStates; chainLatestMeta: latestPoolEventMeta;
\* logBuffer: eventBuffer; logTimer: eventsProcessingTimer is set;
\* workerAlive: the worker runs; errorLog: what logger.warn / logger.error
\* were called with; lastLog: the log delivered last and what it met;
\* delivered: the number of logs delivered.
VARIABLES chainPools, chainLatestMeta, logBuffer, logTimer, workerAlive,
          errorLog, lastLog, delivered

deliveryVars == <<chainPools, chainLatestMeta, logBuffer, logTimer, workerAlive,
                  errorLog, lastLog, delivered>>

\* undefined in a numeric field
UndefinedNum == 0 - 1

LogAddresses == {"0xAA", "0xbb", "0xcc"}
MonitoredKeys == {"0xaa", "0xbb"}
RegisteredKeys == {"0xaa", "0xbb", "0xcc"}
Topics == {"V2_SYNC", "V3_SWAP", "V3_MINT", "V3_BURN"}
DeliveryMetas ==
  {[blockNumber |-> b, transactionIndex |-> 0, logIndex |-> 0] : b \in 1..MaxBlock}
Logs == [address : LogAddresses, topic : Topics, meta : DeliveryMetas]

\* a / b as a floating-point number: the pair of its operands
Ratio(a, b) == <<a, b>>

\* A pool as initPool leaves it (dynamic fields zero, no latestEventMeta)
NewChainPool(id, protocol) ==
  [id |-> id, protocol |-> protocol, reserve0 |-> 0, reserve1 |-> 0,
   sqrtPriceX96 |-> 0, tick |-> 0, liquidity |-> 0, ticks |-> <<>>,
   spotPrice0to1 |-> Ratio(0, 0), spotPrice1to0 |-> Ratio(0, 0),
   latestEventMeta |-> NoMeta]

NoLog == [address |-> "none"]

InitDelivery ==
  /\ chainPools = [k \in RegisteredKeys |->
                     NewChainPool(k, IF k = "0xbb" THEN "v3" ELSE "v2")]
  /\ chainLatestMeta = [k \in RegisteredKeys |-> NoMeta]
  /\ logBuffer = <<>>
  /\ logTimer = FALSE
  /\ workerAlive = TRUE
  /\ errorLog = <<>>
  /\ lastLog = NoLog
  /\ delivered = 0

parseLogCountingIndex(log, poolState) ==
  [protocol |-> "v2", name |-> "sync", poolId |-> poolState.id,
   meta |-> [log.meta EXCEPT !.logIndex = delivered],
   reserve0 |-> EventReserve(log.meta), reserve1 |-> EventReserve(log.meta) + 1,
   sqrtPriceX96 |-> UndefinedNum, liquidity |-> UndefinedNum, tick |-> UndefinedNum]

\* The event parseLog makes of a log of a registered pool: the kind follows
\* the topic, the pool id the pool registered at the address, and only the
\* fields the topic's parser decodes are defined
parseLog(log, poolState) ==
  LET m == log.meta
      base == [protocol |-> IF log.topic = "V2_SYNC" THEN "v2" ELSE "v3",
               name |-> CASE log.topic = "V2_SYNC" -> "sync"
                          [] log.topic = "V3_SWAP" -> "swap"
                          [] log.topic = "V3_MINT" -> "mint"
                          [] OTHER -> "burn",
               poolId |-> poolState.id, meta |-> m,
               reserve0 |-> UndefinedNum, reserve1 |-> UndefinedNum,
               sqrtPriceX96 |-> UndefinedNum, liquidity |-> UndefinedNum,
               tick |-> UndefinedNum]
  IN CASE log.topic = "V2_SYNC" ->
            [base EXCEPT !.reserve0 = EventReserve(m), !.reserve1 = EventReserve(m) + 1]
       [] log.topic = "V3_SWAP" ->
            [base EXCEPT !.sqrtPriceX96 = m.blockNumber, !.liquidity = EventReserve(m),
                         !.tick = m.blockNumber]
       [] OTHER -> base

\* SqrtMath.calculateVirtualReserves, sqrtPriceX96 in units of Q96
calculateVirtualReserves(sqrtPriceX96, liquidity) ==
  IF liquidity = 0 THEN [reserve0 |-> 0, reserve1 |-> 0]
  ELSE [reserve0 |-> liquidity \div sqrtPriceX96, reserve1 |-> liquidity * sqrtPriceX96]

\* uniswap-v2 updatePoolFromEvent(pool, event): the three fields are written
\* first; calculateSpotPrice then throws in ethers.formatUnits when the
\* event carries no reserves.  The pool object is changed in place.
v2UpdatePoolFromEvent(pool, event) ==
  LET p1 == [pool EXCEPT !.reserve0 = event.reserve0, !.reserve1 = event.reserve1,
                         !.latestEventMeta = event.meta]
  IN IF event.reserve0 = UndefinedNum \/ event.reserve1 = UndefinedNum
     THEN [pool |-> p1, threw |-> TRUE]
     ELSE [pool |-> [p1 EXCEPT !.spotPrice0to1 = Ratio(event.reserve1, event.reserve0),
                               !.spotPrice1to0 = Ratio(event.reserve0, event.reserve1)],
           threw |-> FALSE]

v3UpdatePoolFromEventAnyKind(pool, event) ==
  [pool |-> [pool EXCEPT !.sqrtPriceX96 = event.sqrtPriceX96, !.tick = event.tick,
                         !.liquidity = event.liquidity,
                         !.latestEventMeta = event.meta],
   threw |-> FALSE]

\* uniswap-v3 updatePoolFromEvent(pool, event): anything but a V3 swap
\* returns the pool as it is
v3UpdatePoolFromEvent(pool, event) ==
  IF event.protocol # "v3" \/ event.name # "swap"
  THEN [pool |-> pool, threw |-> FALSE]
  ELSE LET r == calculateVirtualReserves(event.sqrtPriceX96, event.liquidity)
       IN [pool |-> [pool EXCEPT
                       !.reserve0 = r.reserve0, !.reserve1 = r.reserve1,
                       !.sqrtPriceX96 = event.sqrtPriceX96, !.tick = event.tick,
                       !.liquidity = event.liquidity,
                       !.latestEventMeta = event.meta,
                       !.spotPrice0to1 =
                         Ratio(event.sqrtPriceX96 * event.sqrtPriceX96, 1),
                       !.spotPrice1to0 =
                         Ratio(1, event.sqrtPriceX96 * event.sqrtPriceX96)],
           threw |-> FALSE]

\* DexRegistry.updatePoolFromEvent: routed by the pool's protocol
registryUpdatePoolFromEvent(pool, event) ==
  IF pool.protocol = "v2" THEN v2UpdatePoolFromEvent(pool, event)
  ELSE v3UpdatePoolFromEvent(pool, event)

\* PoolStatesManager.handlePoolEvent(event) for a pool the map holds; it is
\* async but meets no await, so it runs to its end inside the call.
\* rejected: an exception ended it (its promise is rejected)
managerHandlePoolEvent(ps, latest, event) ==
  LET id == event.poolId
      pool == ps[id]
  IN IF ~isEventNewer(event.meta, pool.latestEventMeta)
     THEN [pools |-> ps, latest |-> latest, rejected |-> FALSE,
           warned |-> <<<<"outdated", id>>>>]
     ELSE LET u == registryUpdatePoolFromEvent(pool, event)
          IN IF u.threw
             THEN [pools |-> [ps EXCEPT ![id] = u.pool], latest |-> latest,
                   rejected |-> TRUE, warned |-> <<>>]
             ELSE [pools |-> [ps EXCEPT ![id] = u.pool],
                   latest |-> [latest EXCEPT ![id] = event.meta],
                   rejected |-> FALSE, warned |-> <<>>]

IsMonitoredAlways(address) == TRUE

\* this.poolAddressesSet.has(log.address.toLowerCase())
IsMonitored(address) == ToLower(address) \in MonitoredKeys

\* The rejected promise of handlePoolEvent is awaited by nobody and has no
\* catch: the runtime decides what an unhandled rejection does to the worker
RejectionOutcomes == {"worker-error", "ignored"}

\* BlockManager.handlePoolEvent(log)
deliverLog(log, outcome) ==
  /\ workerAlive
  /\ delivered < MaxEvents
  /\ delivered' = delivered + 1
  /\ IF ~IsMonitored(log.address)
     THEN /\ errorLog' = Append(errorLog, <<"unmonitored", log.address>>)
          /\ lastLog' = [log |-> log, event |-> NoLog, rejected |-> FALSE]
          /\ UNCHANGED <<chainPools, chainLatestMeta, logBuffer, logTimer, workerAlive>>
     ELSE IF ToLower(log.address) \notin RegisteredKeys
     THEN \* parseLog throws, the catch of handlePoolEvent logs the error
          /\ errorLog' = Append(errorLog, <<"error", log.address>>)
          /\ lastLog' = [log |-> log, event |-> NoLog, rejected |-> FALSE]
          /\ UNCHANGED <<chainPools, chainLatestMeta, logBuffer, logTimer, workerAlive>>
     ELSE LET event == parseLog(log, chainPools[ToLower(log.address)])
              r == managerHandlePoolEvent(chainPools, chainLatestMeta, event)
          IN /\ logBuffer' = Append(logBuffer, event)
             /\ chainPools' = r.pools
             /\ chainLatestMeta' = r.latest
             /\ errorLog' = errorLog \o r.warned
             /\ logTimer' = TRUE
             /\ lastLog' = [log |-> log, event |-> event, rejected |-> r.rejected]
             /\ workerAlive' = ~(r.rejected /\ outcome = "worker-error")

\* The debounce timer fires: processPoolEventsBatch
deliveryTimerFires ==
  /\ workerAlive
  /\ logTimer
  /\ logBuffer' = <<>>
  /\ logTimer' = FALSE
  /\ UNCHANGED <<chainPools, chainLatestMeta, workerAlive, errorLog, lastLog, delivered>>

NextDelivery ==
  \/ \E log \in Logs, outcome \in RejectionOutcomes : deliverLog(log, outcome)
  \/ deliveryTimerFires

\* C21: an adapter error raised while an event is applied is reported for
\* that event and never stops the watcher: the worker goes on running, so
\* that the next log is parsed and applied.
C21_AdapterErrorNeverStopsWatcher ==
  [][\A log \in Logs, outcome \in RejectionOutcomes :
       (deliverLog(log, outcome) /\ lastLog'.rejected) =>
         /\ workerAlive'
         /\ Len(errorLog') = Len(errorLog) + 1]_deliveryVars

\* The event is of the kind the pool's adapter applies
FitsAdapter(pool, event) ==
  /\ event.protocol = pool.protocol
  /\ pool.protocol = "v2" => event.name = "sync"

\* C22: applying an event whose protocol or kind does not fit the pool's
\* adapter (anything but a Sync on a V2 pool) fails with an error for that
\* event and leaves the stored pool, latestEventMeta included, as it was.
C22_MismatchedEventRejectedUnchanged ==
  [][\A log \in Logs, outcome \in RejectionOutcomes :
       (/\ deliverLog(log, outcome)
        /\ IsMonitored(log.address)
        /\ LET pool == chainPools[ToLower(log.address)]
               event == parseLog(log, pool)
           IN /\ ~FitsAdapter(pool, event)
              /\ isEventNewer(event.meta, pool.latestEventMeta))
       => /\ lastLog'.rejected
          /\ chainPools'[ToLower(log.address)] = chainPools[ToLower(log.address)]
    ]_deliveryVars

\* C23: a V3 mint or burn event delivered for a V3 pool leaves the pool's
\* state (sqrtPriceX96, tick, liquidity, ticks, spot prices, reserves and
\* latestEventMeta) as it was.
C23_MintBurnLeavePoolUnchanged ==
  [][\A log \in Logs, outcome \in RejectionOutcomes :
       (/\ deliverLog(log, outcome)
        /\ IsMonitored(log.address)
        /\ chainPools[ToLower(log.address)].protocol = "v3"
        /\ log.topic \in {"V3_MINT", "V3_BURN"})
       => chainPools'[ToLower(log.address)] = chainPools[ToLower(log.address)]
    ]_deliveryVars

\* a mint newer than the swap the pool has applied went through the adapter
C23_Witness ==
  /\ lastLog # NoLog
  /\ lastLog.log.topic = "V3_MINT"
  /\ ToLower(lastLog.log.address) = "0xbb"
  /\ chainLatestMeta["0xbb"] = lastLog.log.meta
  /\ chainPools["0xbb"].sqrtPriceX96 > 0
  /\ chainPools["0xbb"].latestEventMeta # lastLog.log.meta

\* C24: the same V2 Sync log (same reserves, same metadata) delivered a
\* second time leaves the pool states, their latestEventMeta and the
\* manager's latestPoolEventMeta exactly as the first delivery left them.
C24_SameSyncTwiceIsOnce ==
  [][\A log \in Logs, outcome \in RejectionOutcomes :
       (/\ deliverLog(log, outcome)
        /\ IsMonitored(log.address)
        /\ log.topic = "V2_SYNC"
        /\ lastLog # NoLog
        /\ lastLog.log = log)
       => /\ chainPools' = chainPools
          /\ chainLatestMeta' = chainLatestMeta
    ]_deliveryVars

\* the V2 pool has applied a Sync and the same Sync was delivered again
C24_Witness ==
  /\ Len(logBuffer) = 2
  /\ logBuffer[1] = logBuffer[2]
  /\ logBuffer[1].name = "sync"
  /\ logBuffer[1].poolId = "0xaa"
  /\ chainPools["0xaa"].latestEventMeta = logBuffer[1].meta
  /\ chainPools["0xaa"].reserve0 = logBuffer[1].reserve0
  /\ chainLatestMeta["0xaa"] = logBuffer[1].meta

\* C25: a log whose address is not in the monitored pool-address set is
\* dropped: it is not parsed, no pool state and no latestPoolEventMeta
\* changes, the event buffer is not appended to and the debounce timer is
\* neither armed nor re-armed.
C25_UnmonitoredLogDropped ==
  [][\A log \in Logs, outcome \in RejectionOutcomes :
       (deliverLog(log, outcome) /\ ToLower(log.address) \notin MonitoredKeys)
       => /\ lastLog'.event = NoLog
          /\ UNCHANGED <<chainPools, chainLatestMeta, logBuffer, logTimer>>
    ]_deliveryVars

\* a Sync of the unmonitored pool was dropped while an event was buffered
\* and the timer armed
C25_Witness ==
  /\ lastLog # NoLog
  /\ ToLower(lastLog.log.address) = "0xcc"
  /\ lastLog.log.topic = "V2_SYNC"
  /\ Len(logBuffer) = 1
  /\ logTimer

(***************************************************************************)
(* =========================  TOKEN MANAGER  ============================= *)
(* src/unnamed/part_012 (TokenManager), blockchain.ts (initContract)       *)
(***************************************************************************)
\* tokens: TokenManager.tokens; contracts: the keys of Blockchain.contracts;
\* tokenCalls: the ensureTokenRegistered calls made (awaiting: suspended in
\* introspectToken at the Promise.all of the three reads); metadataReads: how
\* often the on-chain metadata of an address has been read.
VARIABLES tokens, contracts, tokenCalls, metadataReads

tokenVars == <<tokens, contracts, tokenCalls, metadataReads>>

TokenAddresses == {"0xWETH", "0xusdc", "0xdai"}
TokenAddressKeys == {ToLower(a) : a \in TokenAddresses}

NoToken == [address |-> "none", trusted |-> FALSE]

\* The trusted list holds DAI only
trustedTokens == {[address |-> "0xdai", trusted |-> TRUE]}

InitToken ==
  /\ tokens = [k \in TokenAddressKeys |-> NoToken]
  /\ contracts = {}
  /\ tokenCalls = <<>>
  /\ metadataReads = [k \in TokenAddressKeys |-> 0]

\* Blockchain.initContract(address, abi): throws when the address already
\* has a contract
initContract(cs, key) ==
  IF key \in cs THEN [threw |-> TRUE, contracts |-> cs]
  ELSE [threw |-> FALSE, contracts |-> cs \cup {key}]

\* ensureTokenRegistered(key, 'address') up to its return or its first await
ensureTokenRegistered(address) ==
  LET key == ToLower(address)
      found == {t \in trustedTokens : t.address = key}
  IN /\ Len(tokenCalls) < MaxTokenCalls
     /\ IF tokens[key] # NoToken
        THEN /\ tokenCalls' = Append(tokenCalls,
                                [key |-> key, pc |-> "returned", token |-> tokens[key]])
             /\ UNCHANGED <<tokens, contracts, metadataReads>>
        ELSE IF found # {}
        THEN LET t == CHOOSE t \in found : TRUE
             IN /\ tokens' = [tokens EXCEPT ![key] = t]
                /\ tokenCalls' = Append(tokenCalls,
                                   [key |-> key, pc |-> "returned", token |-> t])
                /\ UNCHANGED <<contracts, metadataReads>>
        ELSE LET c == initContract(contracts, key)
             IN /\ contracts' = c.contracts
                /\ IF c.threw
                   THEN /\ tokenCalls' = Append(tokenCalls,
                                           [key |-> key, pc |-> "threw", token |-> NoToken])
                        /\ UNCHANGED metadataReads
                   ELSE /\ tokenCalls' = Append(tokenCalls,
                                           [key |-> key, pc |-> "awaiting", token |-> NoToken])
                        /\ metadataReads' = [metadataReads EXCEPT ![key] = @ + 1]
                /\ UNCHANGED tokens

\* introspectToken resumes: the reads answered (ok) or failed; then
\* ensureTokenRegistered registers the token and returns it, or throws
introspectTokenDone(i, ok) ==
  /\ i \in 1..Len(tokenCalls)
  /\ tokenCalls[i].pc = "awaiting"
  /\ LET key == tokenCalls[i].key
         token == [address |-> key, trusted |-> FALSE]
     IN IF ok
        THEN /\ tokens' = [tokens EXCEPT ![key] = token]
             /\ tokenCalls' = [tokenCalls EXCEPT ![i].pc = "returned", ![i].token = token]
        ELSE /\ tokenCalls' = [tokenCalls EXCEPT ![i].pc = "read-failed"]
             /\ UNCHANGED tokens
  /\ UNCHANGED <<contracts, metadataReads>>

NextToken ==
  \/ \E address \in TokenAddresses : ensureTokenRegistered(address)
  \/ \E i \in 1..MaxTokenCalls, ok \in BOOLEAN : introspectTokenDone(i, ok)

\* C26: whatever the interleaving of the ensureTokenRegistered calls for an
\* address, its on-chain metadata is read at most once, no call fails unless
\* its own read failed, and the calls that have returned returned the same
\* token.
C26_OneReadSameToken ==
  /\ \A k \in TokenAddressKeys : metadataReads[k] <= 1
  /\ \A i \in 1..Len(tokenCalls) : tokenCalls[i].pc # "threw"
  /\ \A i, j \in 1..Len(tokenCalls) :
       (/\ tokenCalls[i].key = tokenCalls[j].key
        /\ tokenCalls[i].pc = "returned"
        /\ tokenCalls[j].pc = "returned")
       => tokenCalls[i].token = tokenCalls[j].token

(***************************************************************************)
(* =========================  RATE LIMITER  ============================== *)
(* blockchain.ts (Blockchain.throttledCall, processQueue)                  *)
(***************************************************************************)
\* limiterQueue: rateLimiter.queue, the calls by their number in the order
\* they were queued; limiterProcessing: rateLimiter.processing; limiterPc:
\* where processQueue stands (delay: awaiting the rate-limit timer; batch:
\* awaiting Promise.all; between: awaiting the delay between batches);
\* inFlight: the calls started and not settled; started: the calls in the
\* order they were started; queuedCount: the calls queued so far;
\* callerPromise: for each call, the promise throttledCall returned to its
\* caller (NotCalled before the call is made).  The result or error of call n
\* is named by n.
VARIABLES limiterQueue, limiterProcessing, limiterPc, inFlight, started,
          queuedCount, callerPromise

limiterVars == <<limiterQueue, limiterProcessing, limiterPc, inFlight, started,
                 queuedCount, callerPromise>>

NotCalled == [state |-> "none"]
PendingPromise == [state |-> "pending"]

maxConcurrent == 3

InitLimiter ==
  /\ limiterQueue = <<>>
  /\ limiterProcessing = FALSE
  /\ limiterPc = "idle"
  /\ inFlight = {}
  /\ started = <<>>
  /\ queuedCount = 0
  /\ callerPromise = [n \in 1..MaxThrottled |-> NotCalled]

spliceBatchWholeQueue(queue) == queue

\* this.rateLimiter.queue.splice(0, this.rateLimiter.maxConcurrent)
spliceBatch(queue) ==
  SubSeq(queue, 1, IF Len(queue) < maxConcurrent THEN Len(queue) ELSE maxConcurrent)

\* The head of the while loop of processQueue once the queue is not empty:
\* await the rate-limit timer (mustWait) or take a batch and start its calls
loopHead(queue, mustWait) ==
  IF mustWait
  THEN /\ limiterPc' = "delay"
       /\ limiterQueue' = queue
       /\ UNCHANGED <<inFlight, started>>
  ELSE LET batch == spliceBatch(queue)
       IN /\ limiterPc' = "batch"
          /\ limiterQueue' = SubSeq(queue, Len(batch) + 1, Len(queue))
          /\ inFlight' = {batch[i] : i \in 1..Len(batch)}
          /\ started' = started \o batch

\* throttledCall(fn): queue the call; start processQueue when none runs
throttledCall(mustWait) ==
  /\ queuedCount < MaxThrottled
  /\ queuedCount' = queuedCount + 1
  /\ callerPromise' = [callerPromise EXCEPT ![queuedCount + 1] = PendingPromise]
  /\ LET queue == Append(limiterQueue, queuedCount + 1)
     IN IF limiterProcessing
        THEN /\ limiterQueue' = queue
             /\ UNCHANGED <<limiterProcessing, limiterPc, inFlight, started>>
        ELSE /\ limiterProcessing' = TRUE
             /\ loopHead(queue, mustWait)

\* the rate-limit timer fires
delayElapsed ==
  /\ limiterPc = "delay"
  /\ loopHead(limiterQueue, FALSE)
  /\ UNCHANGED <<limiterProcessing, queuedCount, callerPromise>>

\* a wrapper that only resolves: try { resolve(await fn()) } catch {}
queuedWrapperSwallowsError(promise, n, ok) ==
  IF ok THEN [state |-> "resolved", value |-> n] ELSE promise

\* the wrapper throttledCall queues: try { const result = await fn();
\* resolve(result) } catch (error) { reject(error) }
queuedWrapper(promise, n, ok) ==
  IF ok THEN [state |-> "resolved", value |-> n]
  ELSE [state |-> "rejected", value |-> n]

\* a started call settles, fulfilled (ok) or rejected: its wrapper settles the
\* caller's promise and is itself fulfilled
callSettles(n, ok) ==
  /\ n \in inFlight
  /\ inFlight' = inFlight \ {n}
  /\ callerPromise' = [callerPromise EXCEPT ![n] = queuedWrapper(@, n, ok)]
  /\ UNCHANGED <<limiterQueue, limiterProcessing, limiterPc, started, queuedCount>>

\* Promise.all of the batch is fulfilled: wait between batches, or end
batchSettled ==
  /\ limiterPc = "batch"
  /\ inFlight = {}
  /\ IF Len(limiterQueue) > 0
     THEN limiterPc' = "between" /\ UNCHANGED limiterProcessing
     ELSE limiterPc' = "idle" /\ limiterProcessing' = FALSE
  /\ UNCHANGED <<limiterQueue, inFlight, started, queuedCount, callerPromise>>

\* the delay between batches is over: back to the head of the loop
betweenElapsed(mustWait) ==
  /\ limiterPc = "between"
  /\ loopHead(limiterQueue, mustWait)
  /\ UNCHANGED <<limiterProcessing, queuedCount, callerPromise>>

NextLimiter ==
  \/ \E mustWait \in BOOLEAN : throttledCall(mustWait)
  \/ delayElapsed
  \/ \E n \in 1..MaxThrottled, ok \in BOOLEAN : callSettles(n, ok)
  \/ batchSettled
  \/ \E mustWait \in BOOLEAN : betweenElapsed(mustWait)

\* C27: the calls are started in the order they were queued, in batches of
\* at most maxConcurrent, a batch is started only when every call of the
\* batch before it has settled, and never more than maxConcurrent calls are
\* in flight.
C27_BatchesInOrderBounded ==
  [][/\ Cardinality(inFlight') <= maxConcurrent
     /\ started' # started =>
          /\ inFlight = {}
          /\ Len(started') - Len(started) <= maxConcurrent
          /\ started' = [i \in 1..Len(started') |-> i]
    ]_limiterVars

\* a second batch was started while a later call was still queued
C27_Witness ==
  /\ Len(started) = maxConcurrent + 1
  /\ inFlight = {maxConcurrent + 1}
  /\ Len(limiterQueue) > 0

\* C40: every call submitted to the rate limiter is eventually started and
\* its caller's promise eventually settles, resolved with the call's own
\* result or rejected with its own error; the loop runs exactly while the
\* processing flag is set, and no call is in the queue without a loop running.
C40_EveryCallSettlesWithOwnResult ==
  /\ [](limiterProcessing <=> limiterPc # "idle")
  /\ [](Len(limiterQueue) > 0 => limiterProcessing)
  /\ \A n \in 1..MaxThrottled :
       (callerPromise[n] = PendingPromise) ~>
         /\ \E i \in 1..Len(started) : started[i] = n
         /\ callerPromise[n].state \in {"resolved", "rejected"}
         /\ callerPromise[n].value = n

\* C40 witness: the first call failed, and a call queued while the first batch
\* was awaited was started by the same loop and resolved; the loop has ended
C40_Witness ==
  /\ callerPromise[1] = [state |-> "rejected", value |-> 1]
  /\ callerPromise[2] = [state |-> "resolved", value |-> 2]
  /\ Len(started) = 2
  /\ limiterPc = "idle"
  /\ limiterQueue = <<>>

(***************************************************************************)
(* ======================  V3 SWAP SIMULATION  =========================== *)
(* adapters/lib/sqrtPriceMath.ts (simulateSwap, getNextInitializedTick)    *)
(***************************************************************************)
\* The loop of simulateSwap: swapPc is where the call stands, iterations,
\* currentTick, swapLiquidity and amountRemaining are its locals of these
\* names, atPriceLimit is currentSqrtPrice === sqrtPriceLimit, outPositive is
\* totalAmountOut > 0, swapTicks names the initializedTicks of the pool of the
\* call and swapZeroForOne is its direction.
\* The fixed-point arithmetic of computeSwapStep is not computed: a step is
\* a choice over what it can return (see SwapSteps).
VARIABLES swapPc, iterations, currentTick, swapLiquidity, amountRemaining,
          atPriceLimit, outPositive, swapTicks, swapZeroForOne

swapVars == <<swapPc, iterations, currentTick, swapLiquidity, amountRemaining,
              atPriceLimit, outPositive, swapTicks, swapZeroForOne>>

MAX_ITERATIONS == 500

\* initializedTicks of the pools tried: none, a short unsorted array with a
\* repeated tick, and an array longer than MAX_ITERATIONS
NoTicks == <<>>

ShortTicks ==
  << [tick |-> 2, liquidityNet |-> 1], [tick |-> 1, liquidityNet |-> 0 - 1],
     [tick |-> 2, liquidityNet |-> 0] >>

LongTicks == [i \in 1..MaxTicks |-> [tick |-> i, liquidityNet |-> 0]]

SwapTickArrays == {"none", "short", "long"}

initializedTicks(name) ==
  IF name = "none" THEN NoTicks
  ELSE IF name = "short" THEN ShortTicks ELSE LongTicks

InitSwap ==
  /\ swapPc = "idle"
  /\ iterations = 0
  /\ currentTick = 0
  /\ swapLiquidity = 0
  /\ amountRemaining = 0
  /\ atPriceLimit = FALSE
  /\ outPositive = FALSE
  /\ swapTicks = "none"
  /\ swapZeroForOne = FALSE

\* getNextInitializedTick: the index of the entry returned, 0 for null.
\* Going down, the last entry with tick <= currentTick; going up, the first
\* entry with tick > currentTick
getNextInitializedTick(ticks, tick, zeroForOne) ==
  LET length == Len(ticks)
      found(i) ==
        IF zeroForOne
        THEN /\ ticks[i].tick <= tick
             /\ \A j \in (i + 1)..length : ~(ticks[j].tick <= tick)
        ELSE /\ ticks[i].tick > tick
             /\ \A j \in 1..(i - 1) : ~(ticks[j].tick > tick)
  IN IF \E i \in 1..length : found(i)
     THEN CHOOSE i \in 1..length : found(i)
     ELSE 0

\* What one pass of the loop body can get from its arithmetic: it throws
\* (a division by zero, 'Insufficient liquidity'), or computeSwapStep returns
\* with the target reached or not, the target clamped to the price limit or
\* not, some input consumed and some output or none
SwapSteps ==
  [threw : BOOLEAN, reached : BOOLEAN, clamped : BOOLEAN,
   consumed : 0..MaxAmount, out : BOOLEAN]

whileConditionNoLimit == amountRemaining > 0 /\ ~atPriceLimit

\* amountRemaining > 0n && currentSqrtPrice !== sqrtPriceLimit &&
\* iterations < MAX_ITERATIONS
whileCondition ==
  amountRemaining > 0 /\ ~atPriceLimit /\ iterations < MAX_ITERATIONS

\* simulateSwap up to its loop; the single-tick fallback has no loop
simulateSwap(ticks, tick, liquidity, amountIn, zeroForOne, fallbackThrows) ==
  /\ swapPc = "idle"
  /\ swapTicks' = ticks
  /\ swapZeroForOne' = zeroForOne
  /\ swapLiquidity' = liquidity
  /\ amountRemaining' = amountIn
  /\ currentTick' = tick
  /\ UNCHANGED <<iterations, atPriceLimit, outPositive>>
  /\ swapPc' = IF amountIn <= 0 \/ liquidity <= 0 THEN "threw"
               ELSE IF Len(initializedTicks(ticks)) = 0
                    THEN IF fallbackThrows THEN "threw" ELSE "returned"
                    ELSE "loop"

\* one pass of the body of the while loop
loopIteration ==
  /\ swapPc = "loop"
  /\ whileCondition
  /\ iterations' = iterations + 1
  /\ UNCHANGED <<swapTicks, swapZeroForOne>>
  /\ \E nextTick \in {getNextInitializedTick(initializedTicks(swapTicks),
                                                currentTick, swapZeroForOne)} :
     LET ticks == initializedTicks(swapTicks)
         net == IF nextTick = 0 THEN 0 ELSE ticks[nextTick].liquidityNet
         liquidityAfter == IF swapZeroForOne THEN swapLiquidity - net
                                             ELSE swapLiquidity + net
         nextTickValue == IF nextTick = 0 THEN 0 ELSE ticks[nextTick].tick
     IN \E step \in SwapSteps :
          LET crosses == nextTick # 0 /\ step.reached /\ ~step.clamped
          IN IF step.threw
             THEN /\ swapPc' = "threw"
                  /\ UNCHANGED <<currentTick, swapLiquidity, amountRemaining,
                                 atPriceLimit, outPositive>>
             ELSE /\ amountRemaining' = IF amountRemaining < step.consumed THEN 0
                                        ELSE amountRemaining - step.consumed
                  /\ outPositive' = (outPositive \/ step.out)
                  /\ atPriceLimit' = (step.reached /\ (step.clamped \/ nextTick = 0))
                  /\ swapLiquidity' = IF crosses THEN liquidityAfter ELSE swapLiquidity
                  /\ currentTick' = IF crosses /\ liquidityAfter > 0
                                    THEN IF swapZeroForOne THEN nextTickValue - 1
                                                           ELSE nextTickValue
                                    ELSE currentTick
                  /\ swapPc' = IF crosses /\ liquidityAfter > 0 THEN "loop" ELSE "exit"

\* the condition of the while loop is false
loopEnds ==
  /\ swapPc = "loop"
  /\ ~whileCondition
  /\ swapPc' = "exit"
  /\ UNCHANGED <<iterations, currentTick, swapLiquidity, amountRemaining,
                 atPriceLimit, outPositive, swapTicks, swapZeroForOne>>

\* after the loop: no output throws, else totalAmountOut is returned
swapReturns ==
  /\ swapPc = "exit"
  /\ swapPc' = IF outPositive THEN "returned" ELSE "threw"
  /\ UNCHANGED <<iterations, currentTick, swapLiquidity, amountRemaining,
                 atPriceLimit, outPositive, swapTicks, swapZeroForOne>>

NextSwap ==
  \/ \E ticks \in SwapTickArrays, tick \in 0..1, liquidity \in 0..1,
        amountIn \in 0..MaxAmount, zeroForOne \in BOOLEAN, fallbackThrows \in BOOLEAN :
       simulateSwap(ticks, tick, liquidity, amountIn, zeroForOne, fallbackThrows)
  \/ loopIteration
  \/ loopEnds
  \/ swapReturns

\* C28: the tick-crossing loop of the multi-tick simulation makes at most 500
\* passes, and every simulation that was started ends, with an amount returned
\* or with an error.
C28_SwapEndsWithinMaxIterations ==
  /\ [](iterations <= MAX_ITERATIONS)
  /\ (swapPc # "idle") ~> (swapPc \in {"returned", "threw"})

\* a simulation ended by the limit: 500 passes made, input left, an amount
\* returned
C28_Witness ==
  /\ swapPc = "returned"
  /\ iterations = MAX_ITERATIONS
  /\ amountRemaining > 0
  /\ ~atPriceLimit

(***************************************************************************)
(* ==========================  V2 TRADE QUOTE  =========================== *)
(* adapters/uniswap-v2.ts (getTradeQuote), part_010 (DexV2Adapter)         *)
(***************************************************************************)
\* lastQuote: the last call of getTradeQuote, its arguments and its outcome
VARIABLES lastQuote

quoteVars == <<lastQuote>>

NoQuoteCall == [called |-> FALSE]

InitQuote == lastQuote = NoQuoteCall

\* the messages of the errors getTradeQuote throws, up to the values in them
InvalidAmount == "Invalid trade amount"

InsufficientLiquidity == "Insufficient liquidity in pool"

ExceedsLiquidity == "Trade amount exceeds available liquidity in pool"

InvalidAmountOut == "Trade quote invalid amountOut"

QuoteError(message) == [error |-> message, amountOut |-> 0]

Quote(amountOut) == [error |-> "", amountOut |-> amountOut]

\* (amountInWithFee * reserveOut) / (reserveIn + amountInWithFee), with
\* amountInWithFee = (amountIn * (10000 - feeBps)) / 10000
v2AmountOut(reserveIn, reserveOut, amountIn, feeBps) ==
  LET amountInWithFee == (amountIn * (10000 - feeBps)) \div 10000
  IN (amountInWithFee * reserveOut) \div (reserveIn + amountInWithFee)

getTradeQuoteAnyAmountOut(poolState, amountIn, zeroForOne) ==
  LET reserveIn == IF zeroForOne THEN poolState.reserve0 ELSE poolState.reserve1
      reserveOut == IF zeroForOne THEN poolState.reserve1 ELSE poolState.reserve0
  IN IF amountIn <= 0 THEN QuoteError(InvalidAmount)
     ELSE IF reserveIn <= 0 \/ reserveOut <= 0 THEN QuoteError(InsufficientLiquidity)
     ELSE IF amountIn > reserveIn THEN QuoteError(ExceedsLiquidity)
     ELSE Quote(v2AmountOut(reserveIn, reserveOut, amountIn, poolState.feeBps))

\* getTradeQuote: the error thrown, or the amountOut of the quote returned
getTradeQuote(poolState, amountIn, zeroForOne) ==
  LET reserveIn == IF zeroForOne THEN poolState.reserve0 ELSE poolState.reserve1
      reserveOut == IF zeroForOne THEN poolState.reserve1 ELSE poolState.reserve0
      amountOut == v2AmountOut(reserveIn, reserveOut, amountIn, poolState.feeBps)
  IN IF amountIn <= 0 THEN QuoteError(InvalidAmount)
     ELSE IF reserveIn <= 0 \/ reserveOut <= 0 THEN QuoteError(InsufficientLiquidity)
     ELSE IF amountIn > reserveIn THEN QuoteError(ExceedsLiquidity)
     ELSE IF amountOut <= 0 THEN QuoteError(InvalidAmountOut)
     ELSE Quote(amountOut)

\* a caller asks for a quote
quoteRequested(poolState, amountIn, zeroForOne) ==
  lastQuote' = [called |-> TRUE, poolState |-> poolState, amountIn |-> amountIn,
                zeroForOne |-> zeroForOne,
                result |-> getTradeQuote(poolState, amountIn, zeroForOne)]

QuotePools == [reserve0 : 0..MaxReserve, reserve1 : 0..MaxReserve, feeBps : {0, 30}]

NextQuote ==
  \E poolState \in QuotePools, amountIn \in (0 - 1)..(MaxReserve + 1),
     zeroForOne \in BOOLEAN :
    quoteRequested(poolState, amountIn, zeroForOne)

quoteReserveIn ==
  IF lastQuote.zeroForOne THEN lastQuote.poolState.reserve0
                          ELSE lastQuote.poolState.reserve1

quoteLiquidityError ==
  lastQuote.result.error \in {InsufficientLiquidity, ExceedsLiquidity}

quoteShort ==
  \/ lastQuote.poolState.reserve0 = 0
  \/ lastQuote.poolState.reserve1 = 0
  \/ lastQuote.amountIn > quoteReserveIn

\* C29: a V2 quote fails with the invalid-amount error iff amountIn <= 0,
\* fails with the insufficient-liquidity error iff either reserve is 0 or
\* amountIn > reserveIn, and for every other input returns a quote.
C29_QuoteErrorsIff ==
  lastQuote.called =>
    /\ (lastQuote.result.error = InvalidAmount) <=> (lastQuote.amountIn <= 0)
    /\ quoteLiquidityError <=> quoteShort
    /\ (lastQuote.amountIn > 0 /\ ~quoteShort) => lastQuote.result.error = ""

\* C29 as the code has it: the invalid-amount error iff amountIn <= 0; for
\* amountIn > 0 the insufficient-liquidity error iff either reserve is 0 or
\* amountIn > reserveIn; for every other input a quote with amountOut > 0,
\* or the invalid-amountOut error when the amount out rounds down to 0.
C29_QuoteErrorsInOrder ==
  lastQuote.called =>
    /\ (lastQuote.result.error = InvalidAmount) <=> (lastQuote.amountIn <= 0)
    /\ lastQuote.amountIn > 0 => (quoteLiquidityError <=> quoteShort)
    /\ (lastQuote.amountIn > 0 /\ ~quoteShort) =>
         \/ lastQuote.result.error = "" /\ lastQuote.result.amountOut > 0
         \/ /\ lastQuote.result.error = InvalidAmountOut
            /\ v2AmountOut(quoteReserveIn,
                           IF lastQuote.zeroForOne THEN lastQuote.poolState.reserve1
                                                   ELSE lastQuote.poolState.reserve0,
                           lastQuote.amountIn, lastQuote.poolState.feeBps) = 0

\* a positive amount within positive reserves whose amount out is 0
C29_Witness ==
  /\ lastQuote.called
  /\ lastQuote.amountIn > 0
  /\ ~quoteShort
  /\ lastQuote.result.error = InvalidAmountOut

(***************************************************************************)
(* ========================  V3 INITIALIZED TICKS  ======================= *)
(* part_011 (fetchInitializedTicks, fetchInitializedTicksMulticall3)       *)
(***************************************************************************)
\* v3Pool: the fields tick, tickSpacing and ticks of a DexV3PoolState;
\* ticksFetched: a fetch has written pool.ticks
VARIABLES v3Pool, ticksFetched

ticksVars == <<v3Pool, ticksFetched>>

\* tickSpacing 0: the pool is not initialised yet
InitTicks ==
  /\ v3Pool = [tick |-> 0, tickSpacing |-> 0, ticks |-> <<>>]
  /\ ticksFetched = FALSE

\* initPool reads tickSpacing from the pool contract
v3InitPool(tickSpacing) ==
  /\ v3Pool.tickSpacing = 0
  /\ v3Pool' = [v3Pool EXCEPT !.tickSpacing = tickSpacing]
  /\ UNCHANGED ticksFetched

\* Math.floor(a / b) and Math.ceil(a / b) for b > 0
Floor(a, b) == a \div b

Ceil(a, b) == 0 - ((0 - a) \div b)

RECURSIVE tickValuesFrom(_, _, _)
\* for (let t = minTick; t <= maxTick; t += tickSpacing) tickValues.push(t)
tickValuesFrom(t, maxTick, tickSpacing) ==
  IF t <= maxTick
  THEN <<t>> \o tickValuesFrom(t + tickSpacing, maxTick, tickSpacing)
  ELSE <<>>

\* the tick values asked for: minTick..maxTick aligned to the tick spacing
tickValues(poolTick, tickSpacing, tickRange) ==
  LET minTick == Floor(poolTick - tickRange * tickSpacing, tickSpacing) * tickSpacing
      maxTick == Ceil(poolTick + tickRange * tickSpacing, tickSpacing) * tickSpacing
  IN tickValuesFrom(minTick, maxTick, tickSpacing)

\* What the chain answers for one tick: the call fails (or its answer is
\* malformed), or liquidityNet is read
TickAnswers ==
  { [success |-> FALSE, liquidityNet |-> 0], [success |-> TRUE, liquidityNet |-> 0],
    [success |-> TRUE, liquidityNet |-> 1] }

RECURSIVE decodeResults(_, _, _)
\* the loop over the results: keep { tick, liquidityNet } of the answers
\* that succeeded with liquidityNet !== 0n
decodeResults(values, answers, i) ==
  IF i > Len(values) THEN <<>>
  ELSE (IF answers[i].success /\ answers[i].liquidityNet # 0
        THEN <<[tick |-> values[i], liquidityNet |-> answers[i].liquidityNet]>>
        ELSE <<>>) \o decodeResults(values, answers, i + 1)

RECURSIVE insertByTickDescending(_, _)
insertByTickDescending(sorted, entry) ==
  IF sorted = <<>> THEN <<entry>>
  ELSE IF Head(sorted).tick - entry.tick > 0
       THEN <<Head(sorted)>> \o insertByTickDescending(Tail(sorted), entry)
       ELSE <<entry>> \o sorted

RECURSIVE sortByTickDescending(_)
sortByTickDescending(entries) ==
  IF entries = <<>> THEN <<>>
  ELSE insertByTickDescending(sortByTickDescending(SubSeq(entries, 1, Len(entries) - 1)),
                              entries[Len(entries)])

RECURSIVE insertByTick(_, _)
\* the place of entry in a sorted array: after every element a with
\* a.tick - entry.tick <= 0
insertByTick(sorted, entry) ==
  IF sorted = <<>> THEN <<entry>>
  ELSE IF Head(sorted).tick - entry.tick <= 0
       THEN <<Head(sorted)>> \o insertByTick(Tail(sorted), entry)
       ELSE <<entry>> \o sorted

RECURSIVE sortByTick(_)
\* .sort((a, b) => a.tick - b.tick): a stable ascending sort
sortByTick(entries) ==
  IF entries = <<>> THEN <<>>
  ELSE insertByTick(sortByTick(SubSeq(entries, 1, Len(entries) - 1)),
                    entries[Len(entries)])

AnswersFor(values) == [1..Len(values) -> TickAnswers]

\* fetchInitializedTicks(ctx, pool, tickRange): one contract.ticks(t) per
\* value, a rejected call counts as no tick
fetchInitializedTicks(tickRange) ==
  LET values == tickValues(v3Pool.tick, v3Pool.tickSpacing, tickRange)
  IN /\ v3Pool.tickSpacing > 0
     /\ \E answers \in AnswersFor(values) :
       /\ v3Pool' = [v3Pool EXCEPT !.ticks = sortByTick(decodeResults(values, answers, 1))]
       /\ ticksFetched' = TRUE

\* fetchInitializedTicksMulticall3(ctx, pool, tickRange): one aggregate3
\* call, which may reject and leave the pool as it was
fetchInitializedTicksMulticall3(tickRange, rejects) ==
  LET values == tickValues(v3Pool.tick, v3Pool.tickSpacing, tickRange)
  IN /\ v3Pool.tickSpacing > 0
     /\ IF Len(values) = 0 \/ rejects
        THEN UNCHANGED <<v3Pool, ticksFetched>>
        ELSE \E answers \in AnswersFor(values) :
            /\ v3Pool' = [v3Pool EXCEPT !.ticks = sortByTick(decodeResults(values, answers, 1))]
            /\ ticksFetched' = TRUE

\* a swap event moves pool.tick (updatePoolFromEvent); the ticks stay
v3SwapMovesTick(tick) ==
  /\ v3Pool.tickSpacing > 0
  /\ v3Pool' = [v3Pool EXCEPT !.tick = tick]
  /\ UNCHANGED ticksFetched

NextTicks ==
  \/ \E tickSpacing \in {1, 2} : v3InitPool(tickSpacing)
  \/ \E tickRange \in 1..MaxTickRange : fetchInitializedTicks(tickRange)
  \/ \E tickRange \in 1..MaxTickRange, rejects \in BOOLEAN :
       fetchInitializedTicksMulticall3(tickRange, rejects)
  \/ \E tick \in (0 - 1)..1 : v3SwapMovesTick(tick)

\* C30: once a V3 pool's ticks have been fetched, its ticks are strictly
\* increasing by tick value, so no two entries share a tick.
C30_TicksStrictlyIncreasing ==
  ticksFetched =>
    \A i \in 1..(Len(v3Pool.ticks) - 1) : v3Pool.ticks[i].tick < v3Pool.ticks[i + 1].tick

\* ticks were fetched and at least two of them are initialized
C30_Witness ==
  /\ ticksFetched
  /\ Len(v3Pool.ticks) >= 2

(***************************************************************************)
(* ====================  STATIC CACHE: VALUE CODEC  ====================== *)
(* utils/cache-service.ts (serializeValue, deserializeValue)               *)
(***************************************************************************)
\* A JavaScript value is a record: kind is "bigint", "string", "null",
\* "array" or "object"; num is the value of a bigint, str the text of a
\* string, items the elements of an array or the properties of an object in
\* insertion order, each [key, item] (key "" in an array).
\* lastCodec: the last value stored and what the codec made of it.
VARIABLES lastCodec

codecVars == <<lastCodec>>

NoCodecCall == [called |-> FALSE]

InitCodec == lastCodec = NoCodecCall

JsBigInt(n) == [kind |-> "bigint", num |-> n, str |-> "", items |-> <<>>]

JsString(s) == [kind |-> "string", num |-> 0, str |-> s, items |-> <<>>]

JsNull == [kind |-> "null", num |-> 0, str |-> "", items |-> <<>>]

JsArray(items) == [kind |-> "array", num |-> 0, str |-> "", items |-> items]

JsObject(items) == [kind |-> "object", num |-> 0, str |-> "", items |-> items]

\* deserializeValue threw
JsThrew == [kind |-> "threw", num |-> 0, str |-> "", items |-> <<>>]

Property(key, item) == [key |-> key, item |-> item]

\* value.toString() of the big integers used
BigIntToString(n) == IF n = 5 THEN "5" ELSE "7"

\* BigInt(text): the decimal strings parse, leading zeros included; any
\* other text is a SyntaxError (JsThrew)
BigIntOfString(s) ==
  IF s \in {"5", "05"} THEN JsBigInt(5)
  ELSE IF s = "7" THEN JsBigInt(7)
  ELSE JsThrew

\* BigInt(value.value) for the values a property can hold here
BigIntOf(value) ==
  IF value.kind = "bigint" THEN value
  ELSE IF value.kind = "string" THEN BigIntOfString(value.str)
  ELSE JsThrew

\* value[key], JsNull standing for undefined
propertyOf(value, key) ==
  LET S == {i \in 1..Len(value.items) : value.items[i].key = key}
  IN IF S = {} THEN JsNull ELSE value.items[CHOOSE i \in S : TRUE].item

RECURSIVE serializeValue(_)
\* serializeValue: a bigint becomes { __type__: 'bigint', value: text };
\* arrays and objects are rebuilt from their serialized parts
serializeValue(value) ==
  IF value.kind = "bigint"
  THEN JsObject(<<Property("__type__", JsString("bigint")),
                  Property("value", JsString(BigIntToString(value.num)))>>)
  ELSE IF value.kind \in {"array", "object"}
  THEN [value EXCEPT !.items =
          [i \in 1..Len(value.items) |->
             Property(value.items[i].key, serializeValue(value.items[i].item))]]
  ELSE value

RECURSIVE deserializeValue(_)
\* deserializeValue: an object whose __type__ is 'bigint' becomes
\* BigInt(value.value); arrays and other objects are rebuilt from their
\* deserialized parts; a throw in a part leaves the whole call
deserializeValue(value) ==
  IF value.kind = "object" /\ propertyOf(value, "__type__") = JsString("bigint")
  THEN BigIntOf(propertyOf(value, "value"))
  ELSE IF value.kind \in {"array", "object"}
  THEN LET parts == [i \in 1..Len(value.items) |->
                       Property(value.items[i].key, deserializeValue(value.items[i].item))]
       IN IF \E i \in 1..Len(parts) : parts[i].item = JsThrew THEN JsThrew
          ELSE [value EXCEPT !.items = parts]
  ELSE value

\* The values stored: big integers, strings, null, objects of one or two
\* properties, and arrays and objects nested up to MaxDepth around them
CodecKeys == {"__type__", "value", "a"}

CodecLeaves ==
  {JsBigInt(5), JsBigInt(7), JsNull} \cup {JsString(s) : s \in {"bigint", "5", "05", "abc"}}

CodecPairs ==
  {JsObject(<<Property(k1, v1), Property(k2, v2)>>) :
     k1 \in CodecKeys, k2 \in CodecKeys, v1 \in CodecLeaves, v2 \in CodecLeaves}

CodecWell(value) ==
  \A i, j \in 1..Len(value.items) : i # j => value.items[i].key # value.items[j].key

RECURSIVE CodecValues(_)
CodecValues(depth) ==
  IF depth = 0 THEN CodecLeaves
  ELSE LET inner == CodecValues(depth - 1)
       IN CodecLeaves \cup {v \in CodecPairs : CodecWell(v)}
            \cup {JsArray(<<>>)}
            \cup {JsArray(<<Property("", v)>>) : v \in inner}
            \cup {JsObject(<<Property(k, v)>>) : k \in CodecKeys, v \in inner}

\* set(key, value) followed by a save and, in a later run, a load: the
\* entry written and the value the load puts back
codecRoundTrip(value) ==
  /\ ~lastCodec.called
  /\ lastCodec' = [called |-> TRUE, stored |-> value,
                   written |-> serializeValue(value),
                   loaded |-> deserializeValue(serializeValue(value))]

NextCodec == \E value \in CodecValues(MaxDepth) : codecRoundTrip(value)

\* C31: for every value stored in the static cache, nested big integers,
\* arrays and objects included, the entry written for it is unchanged by
\* deserialize followed by serialize, and a big integer comes back from
\* serialize followed by deserialize as the same big integer.
C31_CodecRoundTrip ==
  lastCodec.called =>
    /\ serializeValue(deserializeValue(lastCodec.written)) = lastCodec.written
    /\ lastCodec.stored.kind = "bigint" => lastCodec.loaded = lastCodec.stored

(***************************************************************************)
(* ================  SWEEPS WITH SEVERAL WORKERS  ======================== *)
(* core/communication/worker-manager.ts (spawnWorker, sendRequest,         *)
(* handleResponse, onerror, terminateWorker)                               *)
(***************************************************************************)
\* The main-thread side of the bus with two workers whose ids are 'eth' and
\* 'eth-2': sweepWorkers, sweepPendingRequests and sweepCounter are workers,
\* pendingRequests and requestIdCounter of WorkerManager, sweepHandles the
\* handles returned by sendRequest (as calls above).
VARIABLES sweepWorkers, sweepPendingRequests, sweepCounter, sweepHandles

sweepVars == <<sweepWorkers, sweepPendingRequests, sweepCounter, sweepHandles>>

ETH2 == <<"e", "t", "h", "-", "2">>

SweepWorkerIds == {ETH, ETH2}

InitSweep ==
  /\ sweepWorkers = {}
  /\ sweepPendingRequests = {}
  /\ sweepCounter = 0
  /\ sweepHandles = <<>>

\* spawnWorker(id, scriptPath)
sweepSpawnWorker(id) ==
  /\ id \notin sweepWorkers
  /\ sweepWorkers' = sweepWorkers \cup {id}
  /\ UNCHANGED <<sweepPendingRequests, sweepCounter, sweepHandles>>

\* sendRequest(workerId, 'status', data)
sweepSendRequest(workerId) ==
  /\ workerId \in sweepWorkers
  /\ sweepCounter < MaxSweepRequests
  /\ LET correlationId == makeCorrelationId(workerId, sweepCounter)
     IN /\ sweepCounter' = sweepCounter + 1
        /\ sweepHandles' = Append(sweepHandles, NewCall(workerId, "status", correlationId))
        /\ sweepPendingRequests' = sweepPendingRequests \cup {correlationId}
  /\ UNCHANGED sweepWorkers

\* handleResponse for a success response to request n
sweepHandleResponse(n) ==
  /\ n \in 1..Len(sweepHandles)
  /\ sweepHandles[n].correlationId \in sweepPendingRequests
  /\ sweepPendingRequests' = sweepPendingRequests \ {sweepHandles[n].correlationId}
  /\ sweepHandles' = settle(sweepHandles, n, "resolved", "data")
  /\ UNCHANGED <<sweepWorkers, sweepCounter>>

\* worker.onerror of worker id
sweepOnerror(id) ==
  /\ id \in sweepWorkers
  /\ sweepHandles' = sweepCalls(sweepHandles, sweepPendingRequests, id, "worker-error")
  /\ sweepPendingRequests' = sweepPending(sweepPendingRequests, id)
  /\ UNCHANGED <<sweepWorkers, sweepCounter>>

\* terminateWorker(workerId) up to its await: the sweep, then the stop request
sweepTerminateWorker(workerId) ==
  /\ workerId \in sweepWorkers
  /\ sweepCounter < MaxSweepRequests
  /\ LET correlationId == makeCorrelationId(workerId, sweepCounter)
         swept == sweepCalls(sweepHandles, sweepPendingRequests, workerId, "terminated")
     IN /\ sweepCounter' = sweepCounter + 1
        /\ sweepHandles' = Append(swept, NewCall(workerId, "stop", correlationId))
        /\ sweepPendingRequests' =
             sweepPending(sweepPendingRequests, workerId) \cup {correlationId}
  /\ UNCHANGED sweepWorkers

NextSweep ==
  \/ \E id \in SweepWorkerIds : sweepSpawnWorker(id)
  \/ \E id \in SweepWorkerIds : sweepSendRequest(id)
  \/ \E n \in 1..MaxSweepRequests : sweepHandleResponse(n)
  \/ \E id \in SweepWorkerIds : sweepOnerror(id)
  \/ \E id \in SweepWorkerIds : sweepTerminateWorker(id)

\* C33: the error sweep and the termination sweep of worker w touch only
\* w's requests: a request pending for a different worker, also one whose id
\* has w's id as a prefix followed by '-', is neither failed nor removed from
\* the pending map.
C33_SweepTouchesOwnRequestsOnly ==
  [][\A w \in SweepWorkerIds :
       (sweepOnerror(w) \/ sweepTerminateWorker(w)) =>
         \A n \in 1..Len(sweepHandles) :
           (sweepHandles[n].workerId # w) =>
             /\ sweepHandles'[n] = sweepHandles[n]
             /\ sweepHandles[n].correlationId \in sweepPendingRequests =>
                  sweepHandles[n].correlationId \in sweepPendingRequests']_sweepVars

(***************************************************************************)
(* =========================  REORG RECOVERY  ============================ *)
(* core/block-manager.ts (listenBlockEvents, handleReorg, init, cleanup)   *)
(***************************************************************************)
\* reorgBlock: currentBlock.number of the BlockManager; reorgRuns: where each
\* handleReorg call made so far stands ("init": awaiting this.init(),
\* "updateAll": awaiting updateAll, "done", "failed": left by a throw);
\* applicationEvents: the application events emitted, in order.
VARIABLES reorgBlock, reorgRuns, applicationEvents

reorgVars == <<reorgBlock, reorgRuns, applicationEvents>>

\* the worker is listening: BlockManager.init has fetched block 1
InitReorg ==
  /\ reorgBlock = 1
  /\ reorgRuns = <<>>
  /\ applicationEvents = <<>>

\* the 'block' listener: an in-sequence block is recorded; an out-of-order
\* one starts handleReorg, which emits reorg-detected, runs cleanup()
\* (currentBlock.number = 0) and is suspended at await this.init()
blockListener(newBlockNumber) ==
  IF newBlockNumber <= reorgBlock
  THEN /\ Len(reorgRuns) < MaxRecoveries
       /\ applicationEvents' = Append(applicationEvents, "reorg-detected")
       /\ reorgBlock' = 0
       /\ reorgRuns' = Append(reorgRuns, "init")
  ELSE /\ reorgBlock' = newBlockNumber
       /\ UNCHANGED <<reorgRuns, applicationEvents>>

\* await this.init() of run r settles: getBlockNumber rejected (blockNumber
\* 0 - 1 here) or gave a falsy number, and init throws; or currentBlock is
\* set and the run goes on to await updateAll()
reorgInitSettles(r, blockNumber) ==
  /\ r \in 1..Len(reorgRuns)
  /\ reorgRuns[r] = "init"
  /\ IF blockNumber <= 0
     THEN /\ reorgRuns' = [reorgRuns EXCEPT ![r] = "failed"]
          /\ UNCHANGED reorgBlock
     ELSE /\ reorgRuns' = [reorgRuns EXCEPT ![r] = "updateAll"]
          /\ reorgBlock' = blockNumber
  /\ UNCHANGED applicationEvents

\* await updateAll() of run r settles; pool-states-updated is emitted
reorgUpdateAllSettles(r) ==
  /\ r \in 1..Len(reorgRuns)
  /\ reorgRuns[r] = "updateAll"
  /\ reorgRuns' = [reorgRuns EXCEPT ![r] = "done"]
  /\ applicationEvents' = Append(applicationEvents, "pool-states-updated")
  /\ UNCHANGED reorgBlock

NextReorg ==
  \/ \E newBlockNumber \in 1..MaxReorgBlock : blockListener(newBlockNumber)
  \/ \E r \in 1..MaxRecoveries, blockNumber \in (0 - 1)..MaxReorgBlock :
       reorgInitSettles(r, blockNumber)
  \/ \E r \in 1..MaxRecoveries : reorgUpdateAllSettles(r)

\* C36: at most one reorg recovery is in progress at any time: a block
\* notification that arrives while a recovery is suspended on the block-number
\* fetch or on updateAll does not start a second, overlapping recovery.
C36_OneRecoveryAtATime ==
  Cardinality({r \in 1..Len(reorgRuns) : reorgRuns[r] \in {"init", "updateAll"}}) <= 1

\* C37: every reorg-detected event is eventually followed by a
\* pool-states-updated event.
C37_ReorgDetectedThenUpdated ==
  \A k \in 1..(2 * MaxRecoveries) :
    (Len(applicationEvents) >= k /\ applicationEvents[k] = "reorg-detected")
      ~> (\E j \in (k + 1)..Len(applicationEvents) :
            applicationEvents[j] = "pool-states-updated")

(***************************************************************************)
(* =================  LISTENERS UNSUBSCRIBED DURING A WRITE  ============== *)
(* core/global-data-store.ts (set, remove, onChange and its handle)        *)
(***************************************************************************)
\* changeListeners: this.listeners of the GlobalDataStore, in array order;
\* poolStored: whether the one pool key written here is in this.pools;
\* lastNotify: the last write that reached its listener loop: the listeners
\* registered when it started, those whose handle took one out of the array
\* during it, and how often each listener was called for it.
VARIABLES changeListeners, poolStored, lastNotify

listenerVars == <<changeListeners, poolStored, lastNotify>>

ChangeListenerIds == {"L1", "L2", "L3"}

NoNotify ==
  [written |-> FALSE, changeType |-> "", registered |-> {}, unsubscribed |-> {},
   calls |-> [l \in ChangeListenerIds |-> 0]]

InitListeners ==
  /\ changeListeners = <<>>
  /\ poolStored = FALSE
  /\ lastNotify = NoNotify

\* const idx = this.listeners.indexOf(listener); if (idx >= 0)
\* this.listeners.splice(idx, 1): the array without its first l
spliceListener(ls, l) ==
  IF indexOf(ls, l) = 0 THEN ls
  ELSE [i \in 1..(Len(ls) - 1) |-> IF i < indexOf(ls, l) THEN ls[i] ELSE ls[i + 1]]

\* for (const fn of this.listeners): the array iterator reads this.listeners
\* itself at every step, so it sees what a callback spliced out
iteratedListeners(atStart, current) == current

\* for (const fn of this.listeners) { try { fn(pool, changeType) } catch {} }
\* from array index i on (1-based).  handleCalled[l] is the listener whose
\* unsubscribe handle the callback of l calls ("" for none).  run.listeners is
\* this.listeners, run.atStart the array when the write started.
RECURSIVE notifyListenersFrom(_, _, _)
notifyListenersFrom(run, i, handleCalled) ==
  LET ls == iteratedListeners(run.atStart, run.listeners) IN
  IF i > Len(ls) THEN run
  ELSE LET fn      == ls[i]
           handle  == handleCalled[fn]
           removed == handle # "" /\ indexOf(run.listeners, handle) > 0
       IN notifyListenersFrom(
            [run EXCEPT !.calls[fn] = @ + 1,
                        !.listeners = IF removed THEN spliceListener(@, handle) ELSE @,
                        !.unsubscribed = IF removed THEN @ \cup {handle} ELSE @],
            i + 1, handleCalled)

notifyListeners(ls, handleCalled) ==
  notifyListenersFrom([listeners |-> ls, atStart |-> ls, unsubscribed |-> {},
                       calls |-> [l \in ChangeListenerIds |-> 0]], 1, handleCalled)

listenerWriteDone(changeType, run) ==
  /\ changeListeners' = run.listeners
  /\ lastNotify' = [written |-> TRUE, changeType |-> changeType,
                    registered |-> {changeListeners[i] : i \in 1..Len(changeListeners)},
                    unsubscribed |-> run.unsubscribed, calls |-> run.calls]

\* set(pool): pools.set, then every listener with 'add' or 'update'
listenerSet(handleCalled) ==
  /\ poolStored' = TRUE
  /\ listenerWriteDone(IF poolStored THEN "update" ELSE "add",
                       notifyListeners(changeListeners, handleCalled))

\* remove(address): false when the pool is absent, else pools.delete, then
\* every listener with 'remove'
listenerRemove(handleCalled) ==
  IF ~poolStored THEN UNCHANGED listenerVars
  ELSE /\ poolStored' = FALSE
       /\ listenerWriteDone("remove", notifyListeners(changeListeners, handleCalled))

\* onChange(listener): this.listeners.push(listener)
listenerOnChange(l) ==
  /\ indexOf(changeListeners, l) = 0
  /\ changeListeners' = Append(changeListeners, l)
  /\ UNCHANGED <<poolStored, lastNotify>>

\* the handle returned by onChange, called outside any write
listenerUnsubscribe(l) ==
  /\ changeListeners' = spliceListener(changeListeners, l)
  /\ UNCHANGED <<poolStored, lastNotify>>

HandleChoices == [ChangeListenerIds -> ChangeListenerIds \cup {""}]

NextListeners ==
  \/ \E handleCalled \in HandleChoices : listenerSet(handleCalled)
  \/ \E handleCalled \in HandleChoices : listenerRemove(handleCalled)
  \/ \E l \in ChangeListenerIds : listenerOnChange(l)
  \/ \E l \in ChangeListenerIds : listenerUnsubscribe(l)

\* C38: for every write, each listener that was registered when the write
\* started and was not itself unsubscribed during it has been called exactly
\* once for that write, also when a callback called an unsubscribe handle.
C38_EveryListenerNotifiedOnce ==
  lastNotify.written =>
    \A l \in lastNotify.registered \ lastNotify.unsubscribed : lastNotify.calls[l] = 1

(***************************************************************************)
(* =====================  STATIC CACHE: SAVE  ============================= *)
(* utils/cache-service.ts (save, set, delete, clear)                       *)
(***************************************************************************)
\* cache: the in-memory Map (CacheAbsent for a key it does not hold); isDirty:
\* the dirty flag; cacheFile: the entries of the cache file, NoFile before the
\* first rename; tempFile: the entries of the .tmp file, NoFile when it does
\* not exist; saveRuns: the save() calls made so far, each with where it stands
\* ("mkdir", "writeFile", "rename": suspended on that call; "skipped", "saved",
\* "threw") and the entries it built before its first await.
VARIABLES cache, isDirty, cacheFile, tempFile, saveRuns

saveVars == <<cache, isDirty, cacheFile, tempFile, saveRuns>>

CacheKeys == {"k1", "k2"}
CacheAbsent == 0
CacheValues == {1, 2}
EmptyCache == [k \in CacheKeys |-> CacheAbsent]
NoFile == [exists |-> FALSE]
FileOf(entries) == [exists |-> TRUE, entries |-> entries]

InitSave ==
  /\ cache = EmptyCache
  /\ isDirty = FALSE
  /\ cacheFile = NoFile
  /\ tempFile = NoFile
  /\ saveRuns = <<>>

\* set(key, value): cache.set; isDirty = true
cacheSet(key, value) ==
  /\ cache' = [cache EXCEPT ![key] = value]
  /\ isDirty' = TRUE
  /\ UNCHANGED <<cacheFile, tempFile, saveRuns>>

\* delete(key): isDirty = true; cache.delete
cacheDelete(key) ==
  /\ cache' = [cache EXCEPT ![key] = CacheAbsent]
  /\ isDirty' = TRUE
  /\ UNCHANGED <<cacheFile, tempFile, saveRuns>>

\* clear(): cache.clear; isDirty = true
cacheClear ==
  /\ cache' = EmptyCache
  /\ isDirty' = TRUE
  /\ UNCHANGED <<cacheFile, tempFile, saveRuns>>

\* save() up to its first await: returns when the cache is not dirty, else
\* builds entries from this.cache and calls fs.mkdir
saveStarts ==
  /\ Len(saveRuns) < MaxSaves
  /\ saveRuns' = Append(saveRuns,
       IF ~isDirty THEN [pc |-> "skipped", entries |-> EmptyCache]
       ELSE [pc |-> "mkdir", entries |-> cache])
  /\ UNCHANGED <<cache, isDirty, cacheFile, tempFile>>

\* await fs.mkdir settles: a rejection is rethrown by the catch, else
\* fs.writeFile(tempFile, ...) is called
saveMkdirSettles(s, ok) ==
  /\ s \in 1..Len(saveRuns)
  /\ saveRuns[s].pc = "mkdir"
  /\ saveRuns' = [saveRuns EXCEPT ![s].pc = IF ok THEN "writeFile" ELSE "threw"]
  /\ UNCHANGED <<cache, isDirty, cacheFile, tempFile>>

\* await fs.writeFile settles: the .tmp file holds the entries of this save
saveWriteFileSettles(s, ok) ==
  /\ s \in 1..Len(saveRuns)
  /\ saveRuns[s].pc = "writeFile"
  /\ saveRuns' = [saveRuns EXCEPT ![s].pc = IF ok THEN "rename" ELSE "threw"]
  /\ tempFile' = IF ok THEN FileOf(saveRuns[s].entries) ELSE tempFile
  /\ UNCHANGED <<cache, isDirty, cacheFile>>

\* await fs.rename settles: it rejects when the .tmp file is gone (renamed by
\* an overlapping save) or on an I/O error; else the cache file is the .tmp
\* file and isDirty = false
saveRenameSettles(s, ok) ==
  /\ s \in 1..Len(saveRuns)
  /\ saveRuns[s].pc = "rename"
  /\ IF ok /\ tempFile.exists
     THEN /\ cacheFile' = tempFile
          /\ tempFile' = NoFile
          /\ isDirty' = FALSE
          /\ saveRuns' = [saveRuns EXCEPT ![s].pc = "saved"]
     ELSE /\ saveRuns' = [saveRuns EXCEPT ![s].pc = "threw"]
          /\ UNCHANGED <<cacheFile, tempFile, isDirty>>
  /\ UNCHANGED cache

NextSave ==
  \/ \E key \in CacheKeys, value \in CacheValues : cacheSet(key, value)
  \/ \E key \in CacheKeys : cacheDelete(key)
  \/ cacheClear
  \/ saveStarts
  \/ \E s \in 1..MaxSaves, ok \in BOOLEAN : saveMkdirSettles(s, ok)
  \/ \E s \in 1..MaxSaves, ok \in BOOLEAN : saveWriteFileSettles(s, ok)
  \/ \E s \in 1..MaxSaves, ok \in BOOLEAN : saveRenameSettles(s, ok)

\* C39: whenever the dirty flag is false after at least one save has written
\* the cache file, every entry held in memory is in the last file written
\* with the value it has in memory.
C39_CleanMeansPersisted ==
  (~isDirty /\ \E s \in 1..Len(saveRuns) : saveRuns[s].pc = "saved") =>
    \A k \in CacheKeys :
      cache[k] # CacheAbsent => (cacheFile.exists /\ cacheFile.entries[k] = cache[k])

(***************************************************************************)
(* ==========================  SPECIFICATIONS  =========================== *)
(* The units share no state: each specification runs one unit and leaves   *)
(* the others in their initial state.                                      *)
(***************************************************************************)
vars == <<storeVars, venueVars, busVars, watcherVars, pipelineVars, freshVars, updateAllVars, oracleVars, deliveryVars, tokenVars, limiterVars, swapVars, quoteVars, ticksVars, codecVars, sweepVars, reorgVars, listenerVars, saveVars>>

Init == InitStore /\ InitVenue /\ InitBus /\ InitWatcher /\ InitPipeline /\ InitFresh /\ InitUpdateAll /\ InitOracle /\ InitSave /\ InitListeners /\ InitReorg /\ InitSweep /\ InitCodec /\ InitTicks /\ InitQuote /\ InitSwap /\ InitLimiter /\ InitToken /\ InitDelivery

SpecStore == Init /\ [][NextStore /\ UNCHANGED <<venueVars, busVars, watcherVars, pipelineVars, freshVars, updateAllVars, oracleVars, deliveryVars, tokenVars, limiterVars, swapVars, quoteVars, ticksVars, codecVars, sweepVars, reorgVars, listenerVars, saveVars>>]_vars

SpecVenue == Init /\ [][NextVenue /\ UNCHANGED <<storeVars, busVars, watcherVars, pipelineVars, freshVars, updateAllVars, oracleVars, deliveryVars, tokenVars, limiterVars, swapVars, quoteVars, ticksVars, codecVars, sweepVars, reorgVars, listenerVars, saveVars>>]_vars

SpecBus == Init /\ [][NextBus /\ UNCHANGED <<storeVars, venueVars, watcherVars, pipelineVars, freshVars, updateAllVars, oracleVars, deliveryVars, tokenVars, limiterVars, swapVars, quoteVars, ticksVars, codecVars, sweepVars, reorgVars, listenerVars, saveVars>>]_vars

SpecWatcher == Init /\ [][NextWatcher /\ UNCHANGED <<storeVars, venueVars, busVars, pipelineVars, freshVars, updateAllVars, oracleVars, deliveryVars, tokenVars, limiterVars, swapVars, quoteVars, ticksVars, codecVars, sweepVars, reorgVars, listenerVars, saveVars>>]_vars

SpecManager == Init /\ [][NextManager /\ UNCHANGED <<storeVars, venueVars, busVars, pipelineVars, freshVars, updateAllVars, oracleVars, deliveryVars, tokenVars, limiterVars, swapVars, quoteVars, ticksVars, codecVars, sweepVars, reorgVars, listenerVars, saveVars>>]_vars

SpecPipeline == Init /\ [][NextPipeline /\ UNCHANGED <<venueVars, busVars, freshVars, updateAllVars, oracleVars, deliveryVars, tokenVars, limiterVars, swapVars, quoteVars, ticksVars, codecVars, sweepVars, reorgVars, listenerVars, saveVars>>]_vars

SpecFresh ==
  Init /\ [][NextFresh /\ UNCHANGED <<storeVars, venueVars, busVars, pipelineVars, updateAllVars, oracleVars, deliveryVars, tokenVars, limiterVars, swapVars, quoteVars, ticksVars, codecVars, sweepVars, reorgVars, listenerVars, saveVars>>]_vars

SpecUpdateAll ==
  Init /\ [][NextUpdateAll /\ UNCHANGED <<storeVars, venueVars, busVars, watcherVars, pipelineVars, freshVars, oracleVars, deliveryVars, tokenVars, limiterVars, swapVars, quoteVars, ticksVars, codecVars, sweepVars, reorgVars, listenerVars, saveVars>>]_vars

SpecOracle ==
  Init /\ [][NextOracle /\ UNCHANGED <<storeVars, venueVars, busVars, watcherVars, pipelineVars, freshVars, updateAllVars, deliveryVars, tokenVars, limiterVars, swapVars, quoteVars, ticksVars, codecVars, sweepVars, reorgVars, listenerVars, saveVars>>]_vars

SpecDelivery ==
  Init /\ [][NextDelivery /\ UNCHANGED <<storeVars, venueVars, busVars, watcherVars, pipelineVars, freshVars, updateAllVars, oracleVars, tokenVars, limiterVars, swapVars, quoteVars, ticksVars, codecVars, sweepVars, reorgVars, listenerVars, saveVars>>]_vars

SpecToken ==
  Init /\ [][NextToken /\ UNCHANGED <<storeVars, venueVars, busVars, watcherVars, pipelineVars, freshVars, updateAllVars, oracleVars, deliveryVars, limiterVars, swapVars, quoteVars, ticksVars, codecVars, sweepVars, reorgVars, listenerVars, saveVars>>]_vars

SpecLimiter ==
  Init /\ [][NextLimiter /\ UNCHANGED <<storeVars, venueVars, busVars, watcherVars, pipelineVars, freshVars, updateAllVars, oracleVars, deliveryVars, tokenVars, swapVars, quoteVars, ticksVars, codecVars, sweepVars, reorgVars, listenerVars, saveVars>>]_vars

\* Timers fire and every started RPC call settles
SpecLimiterFair ==
  SpecLimiter
    /\ WF_limiterVars(delayElapsed)
    /\ WF_limiterVars(\E n \in 1..MaxThrottled, ok \in BOOLEAN : callSettles(n, ok))
    /\ WF_limiterVars(batchSettled)
    /\ WF_limiterVars(\E mustWait \in BOOLEAN : betweenElapsed(mustWait))

SpecSwap ==
  Init /\ [][NextSwap /\ UNCHANGED <<storeVars, venueVars, busVars, watcherVars, pipelineVars, freshVars, updateAllVars, oracleVars, deliveryVars, tokenVars, limiterVars, quoteVars, ticksVars, codecVars, sweepVars, reorgVars, listenerVars, saveVars>>]_vars

\* Every step of a started simulation is taken: the function runs to its end.
SpecSwapFair ==
  Init /\ [][NextSwap /\ UNCHANGED <<storeVars, venueVars, busVars, watcherVars, pipelineVars, freshVars, updateAllVars, oracleVars, deliveryVars, tokenVars, limiterVars, quoteVars, ticksVars, codecVars, sweepVars, reorgVars, listenerVars, saveVars>>]_vars
    /\ WF_swapVars(NextSwap /\ swapPc # "idle")


SpecQuote ==
  Init /\ [][NextQuote /\ UNCHANGED <<storeVars, venueVars, busVars, watcherVars, pipelineVars, freshVars, updateAllVars, oracleVars, deliveryVars, tokenVars, limiterVars, swapVars, ticksVars, codecVars, sweepVars, reorgVars, listenerVars, saveVars>>]_vars

SpecTicks ==
  Init /\ [][NextTicks /\ UNCHANGED <<storeVars, venueVars, busVars, watcherVars, pipelineVars, freshVars, updateAllVars, oracleVars, deliveryVars, tokenVars, limiterVars, swapVars, quoteVars, codecVars, sweepVars, reorgVars, listenerVars, saveVars>>]_vars

SpecCodec ==
  Init /\ [][NextCodec /\ UNCHANGED <<storeVars, venueVars, busVars, watcherVars, pipelineVars, freshVars, updateAllVars, oracleVars, deliveryVars, tokenVars, limiterVars, swapVars, quoteVars, ticksVars, sweepVars, reorgVars, listenerVars, saveVars>>]_vars

SpecSweep ==
  Init /\ [][NextSweep /\ UNCHANGED <<storeVars, venueVars, busVars, watcherVars, pipelineVars, freshVars, updateAllVars, oracleVars, deliveryVars, tokenVars, limiterVars, swapVars, quoteVars, ticksVars, codecVars, reorgVars, listenerVars, saveVars>>]_vars

SpecReorg ==
  Init /\ [][NextReorg /\ UNCHANGED <<storeVars, venueVars, busVars, watcherVars, pipelineVars, freshVars, updateAllVars, oracleVars, deliveryVars, tokenVars, limiterVars, swapVars, quoteVars, ticksVars, codecVars, sweepVars, listenerVars, saveVars>>]_vars

\* Every awaited call of a recovery settles: init() and updateAll() end.
SpecReorgFair ==
  Init /\ [][NextReorg /\ UNCHANGED <<storeVars, venueVars, busVars, watcherVars, pipelineVars, freshVars, updateAllVars, oracleVars, deliveryVars, tokenVars, limiterVars, swapVars, quoteVars, ticksVars, codecVars, sweepVars, listenerVars, saveVars>>]_vars
    /\ WF_reorgVars(\E r \in 1..MaxRecoveries, blockNumber \in (0 - 1)..MaxReorgBlock :
                       reorgInitSettles(r, blockNumber))
    /\ WF_reorgVars(\E r \in 1..MaxRecoveries : reorgUpdateAllSettles(r))


SpecListeners ==
  Init /\ [][NextListeners /\ UNCHANGED <<storeVars, venueVars, busVars, watcherVars, pipelineVars, freshVars, updateAllVars, oracleVars, deliveryVars, tokenVars, limiterVars, swapVars, quoteVars, ticksVars, codecVars, sweepVars, reorgVars, saveVars>>]_vars

SpecSave ==
  Init /\ [][NextSave /\ UNCHANGED <<storeVars, venueVars, busVars, watcherVars, pipelineVars, freshVars, updateAllVars, oracleVars, deliveryVars, tokenVars, limiterVars, swapVars, quoteVars, ticksVars, codecVars, sweepVars, reorgVars, listenerVars>>]_vars

\* Time passes, due timers fire, and a resumed terminateWorker runs.
SpecBusFair ==
  /\ SpecBus
  /\ WF_vars(Tick /\ UNCHANGED <<storeVars, venueVars, watcherVars, pipelineVars, freshVars, updateAllVars, oracleVars, deliveryVars, tokenVars, limiterVars, swapVars, quoteVars, ticksVars, codecVars, sweepVars, reorgVars, listenerVars, saveVars>>)
  /\ \A n \in 1..MaxRequests : WF_vars(Timeout(n) /\ UNCHANGED <<storeVars, venueVars, watcherVars, pipelineVars, freshVars, updateAllVars, oracleVars, deliveryVars, tokenVars, limiterVars, swapVars, quoteVars, ticksVars, codecVars, sweepVars, reorgVars, listenerVars, saveVars>>)
  /\ \A w \in WorkerIds : WF_vars(terminateWorkerResume(w) /\ UNCHANGED <<storeVars, venueVars, watcherVars, pipelineVars, freshVars, updateAllVars, oracleVars, deliveryVars, tokenVars, limiterVars, swapVars, quoteVars, ticksVars, codecVars, sweepVars, reorgVars, listenerVars, saveVars>>)

====
